---- MODULE Spec2Model ----
(***************************************************************************)
(* UniLLM gateway: the request-routing and metering pipeline               *)
(* (api_gateway/main_phase2.py, middleware.py, auth.py, database.py,       *)
(* phase2_llm_client.py) and the model registry (src/unillm/registry.py).  *)
(*                                                                         *)
(* The specifications of this module:                                      *)
(*   Spec          the gateway: registration, credit purchase and the      *)
(*                 /chat/completions pipeline of concurrent requests       *)
(*   SpecRate      the rate limiter alone, one Redis round trip per step   *)
(*   SpecRegistry  the model registry                                      *)
(*   SpecReset     the gateway with the endpoint /debug/reset-user-data    *)
(*   SpecAdapter   the provider adapters' chat calls and their retries     *)
(*   SpecCost      the pricing of a request                                *)
(*   SpecToken     the dispatch of bearer tokens by is_jwt                 *)
(*   SpecScope     the requests the rate limiter counts                    *)
(*   SpecStack     the middleware stack: rate limit, credit check,         *)
(*                 brute-force lockout, security headers                   *)
(*   SpecAccount   password change and API key rotation                    *)
(*   SpecStripe    Stripe payment intents, confirmation and webhook        *)
(*   SpecPrice     the cost charged for successful chat requests           *)
(*   SpecAdmin     the admin endpoints behind the middleware stack         *)
(*                                                                         *)
(* Money is counted in units of 10^-7 dollar, so that every rate of the    *)
(* cost table times the 20% markup is a whole number per token.  Python    *)
(* floats are modelled as the exact rationals they approximate.            *)
(***************************************************************************)
EXTENDS Integers, Sequences, FiniteSets, TLC

VARIABLES
    registry,        \* ModelRegistry: _model_to_provider, _provider_models, _aliases
    regCalls,        \* number of register_model calls made after construction
    lastReg,         \* the last register_model call: name, provider, provider before
    users,           \* table users: user id -> row
    usage_logs,      \* table usage_logs: sequence of rows
    billing_history, \* table billing_history: sequence of rows
    redis,           \* Redis: rate_limit:<key> -> NoKey or [count, expireAt]
    req,             \* in-flight /chat/completions requests of the gateway
    purchases,       \* number of /billing/purchase-credits calls made
    now,             \* clock, in ticks
    client,          \* SpecRate: position of each client inside _check_rate_limit
    winStart,        \* SpecRate: time of the first counted request of the window
    winPassed,       \* SpecRate: requests passed on to the application in the window
    adapter,         \* SpecAdapter: the adapter.chat call in progress or finished
    call,            \* SpecCost, SpecToken: the last call of a function and its result
    failed_attempts, \* BruteForceProtectionMiddleware.failed_attempts: ip -> record
    resp,            \* the last HTTP response sent and the components it came through
    payment_intents, \* Stripe: payment intent id -> status and metadata
    issued_keys      \* SpecAccount: the keys generate_api_key has returned, in order

vars == <<registry, regCalls, lastReg, users, usage_logs, billing_history, redis, req,
          purchases, now, client, winStart, winPassed, adapter, call,
          failed_attempts, resp, payment_intents, issued_keys>>

None == "None"

\* no response has been sent yet
NoReply == [n |-> 0, status |-> 0, by |-> None]

(***************************************************************************)
(* Model registry (src/unillm/registry.py)                                 *)
(***************************************************************************)
Providers == {"openai", "anthropic", "gemini", "mistral", "cohere"}

openai_models ==
    {"gpt-4", "gpt-4o", "gpt-4o-mini", "gpt-4-turbo", "gpt-4-turbo-preview",
     "gpt-4-32k", "gpt-4-32k-turbo", "gpt-3.5-turbo", "gpt-3.5-turbo-16k",
     "gpt-3.5-turbo-instruct"}

anthropic_models ==
    {"claude-3-opus-20240229", "claude-3-haiku-20240307",
     "claude-3-5-sonnet-20241022", "claude-3-7-sonnet-20250219",
     "claude-sonnet-4-20250514", "claude-opus-4-20250514",
     "claude-3-5-haiku-20241022", "claude-3-5-sonnet-20240620"}

gemini_models ==
    {"gemini-pro", "gemini-pro-vision", "gemini-1.5-pro", "gemini-1.5-flash",
     "gemini-1.5-pro-latest", "gemini-1.5-flash-latest"}

mistral_models ==
    {"mistral-large", "mistral-medium", "mistral-small", "mistral-7b-instruct"}

cohere_models ==
    {"command", "command-light", "command-nightly", "command-light-nightly"}

\* alias -> canonical, in the insertion order of the dict literals
anthropic_aliases ==
    << <<"claude-3-opus", "claude-3-opus-20240229">>,
       <<"claude-3-haiku", "claude-3-haiku-20240307">>,
       <<"claude-3-sonnet", "claude-3-5-sonnet-20241022">>,
       <<"claude-3-sonnet-20240229", "claude-3-5-sonnet-20241022">> >>

gemini_aliases ==
    << <<"gemini", "gemini-pro">>,
       <<"gemini-1.5", "gemini-1.5-pro">> >>

\* dict.get(key, default)
DictGet(d, k, default) == IF k \in DOMAIN d THEN d[k] ELSE default

\* del d[k]
DictDel(d, k) == [x \in (DOMAIN d) \ {k} |-> d[x]]

\* d[k] = v
DictSet(d, k, v) == [x \in (DOMAIN d) \cup {k} |-> IF x = k THEN v ELSE d[x]]

EmptyDict == [x \in {} |-> None]

EmptyRegistry ==
    [model_to_provider |-> EmptyDict, provider_models |-> EmptyDict, aliases |-> EmptyDict]

resolve_alias(reg, model) == DictGet(reg.aliases, model, model)

register_model(reg, model0, provider) ==
    LET model == resolve_alias(reg, model0)
        old_provider == DictGet(reg.model_to_provider, model, None)
        pm1 == IF old_provider # None /\ old_provider # provider
                  /\ old_provider \in DOMAIN reg.provider_models
               THEN DictSet(reg.provider_models, old_provider,
                            reg.provider_models[old_provider] \ {model})
               ELSE reg.provider_models
        pm2 == IF provider \in DOMAIN pm1 THEN pm1 ELSE DictSet(pm1, provider, {})
    IN  [reg EXCEPT !.model_to_provider = DictSet(reg.model_to_provider, model, provider),
                    !.provider_models = DictSet(pm2, provider, pm2[provider] \cup {model})]

get_provider_unknown_default(reg, model) ==
    DictGet(reg.model_to_provider, resolve_alias(reg, model), "unknown")

get_provider(reg, model) ==
    DictGet(reg.model_to_provider, resolve_alias(reg, model), None)

get_models_for_provider(reg, provider) == DictGet(reg.provider_models, provider, {})

is_model_supported(reg, model) == resolve_alias(reg, model) \in DOMAIN reg.model_to_provider

\* for model in models: self.register_model(model, provider)
RECURSIVE RegisterAll(_, _, _)
RegisterAll(reg, models, provider) ==
    IF models = {} THEN reg
    ELSE LET m == CHOOSE x \in models : TRUE
         IN  RegisterAll(register_model(reg, m, provider), models \ {m}, provider)

\* for alias, canonical in aliases.items():
\*     self.register_model(alias, provider); self._aliases[alias] = canonical
RECURSIVE RegisterAliases(_, _, _, _)
RegisterAliases(reg, aliases, i, provider) ==
    IF i > Len(aliases) THEN reg
    ELSE LET r1 == register_model(reg, aliases[i][1], provider)
             r2 == [r1 EXCEPT !.aliases = DictSet(r1.aliases, aliases[i][1], aliases[i][2])]
         IN  RegisterAliases(r2, aliases, i + 1, provider)

initialize_default_models ==
    LET r1 == RegisterAll(EmptyRegistry, openai_models, "openai")
        r2 == RegisterAll(r1, anthropic_models, "anthropic")
        r3 == RegisterAll(r2, gemini_models, "gemini")
        r4 == RegisterAll(r3, mistral_models, "mistral")
        r5 == RegisterAll(r4, cohere_models, "cohere")
        r6 == RegisterAliases(r5, anthropic_aliases, 1, "anthropic")
    IN  RegisterAliases(r6, gemini_aliases, 1, "gemini")

DefaultModels ==
    openai_models \cup anthropic_models \cup gemini_models \cup mistral_models
        \cup cohere_models

DefaultAliases ==
    {anthropic_aliases[i][1] : i \in DOMAIN anthropic_aliases}
        \cup {gemini_aliases[i][1] : i \in DOMAIN gemini_aliases}

\* names that no default table mentions
UnregisteredNames == {"unknown-model", "test-model", "gpt-5", "claude-3", ""}

\* the names and providers register_model is called with after construction
RegNames == {"gpt-4", "claude-3-opus", "claude-3-opus-20240229", "gemini", "test-model"}
RegProviders == {"openai", "anthropic", "gemini", "test-provider"}
MaxRegs == 3

\* no register_model call has been made since construction
NoCall == [model |-> None, provider |-> None, old_provider |-> None]

RegisterModel(m, p) ==
    /\ regCalls < MaxRegs
    /\ registry' = register_model(registry, m, p)
    /\ regCalls' = regCalls + 1
    /\ lastReg' = [model |-> m, provider |-> p, old_provider |-> get_provider(registry, m)]
    /\ UNCHANGED <<users, usage_logs, billing_history, redis, req, purchases, now,
                   client, winStart, winPassed, adapter, call,
                   failed_attempts, resp, payment_intents, issued_keys>>

(***************************************************************************)
(* Billing (api_gateway/database.py, config.py)                            *)
(***************************************************************************)
\* one dollar, one 10^-4 dollar (scale of users.credits, DECIMAL(10, 4)) and
\* one 10^-6 dollar (scale of usage_logs.cost, DECIMAL(10, 6)) in money units
Dollar == 10000000
CreditQuantum == 1000
CostQuantum == 10

\* DEFAULT_CREDITS = 0.10
DEFAULT_CREDITS == Dollar \div 10

\* PROVIDER_COSTS, dollars per 1K tokens, in money units
PROVIDER_COSTS ==
    [openai |-> [x \in {"gpt-3.5-turbo", "gpt-4", "gpt-4-turbo"} |->
                    IF x = "gpt-3.5-turbo" THEN 20000 ELSE 300000],
     anthropic |-> [x \in {"claude-3-sonnet", "claude-3-haiku", "claude-3-opus"} |->
                    IF x = "claude-3-sonnet" THEN 150000
                    ELSE IF x = "claude-3-haiku" THEN 25000 ELSE 750000],
     gemini |-> [x \in {"gemini-pro", "gemini-pro-vision"} |-> 10000],
     mistral |-> [x \in {"mistral-small", "mistral-medium", "mistral-large"} |->
                    IF x = "mistral-small" THEN 70000
                    ELSE IF x = "mistral-medium" THEN 140000 ELSE 560000],
     cohere |-> [x \in {"command", "command-light"} |->
                    IF x = "command" THEN 150000 ELSE 30000]]

\* the default of PROVIDER_COSTS.get(provider, {}).get(model, 0.01)
DefaultBaseCost == 100000

\* a column of scale q stores x rounded to a multiple of q (half away from zero)
RoundTo(x, q) ==
    IF x >= 0 THEN ((x + (q \div 2)) \div q) * q
    ELSE 0 - ((((0 - x) + (q \div 2)) \div q) * q)

\* cost_per_1k = base_cost * 1.2; (tokens / 1000) * cost_per_1k.  Every
\* cost_per_1k is a whole number of money units per token.
calculate_cost_no_markup(provider, model, tokens) ==
    LET base_cost == DictGet(DictGet(PROVIDER_COSTS, provider, EmptyDict), model,
                             DefaultBaseCost)
    IN  tokens * (base_cost \div 1000)

calculate_cost(provider, model, tokens) ==
    LET base_cost == DictGet(DictGet(PROVIDER_COSTS, provider, EmptyDict), model,
                             DefaultBaseCost)
        cost_per_1k == (base_cost * 12) \div 10
    IN  tokens * (cost_per_1k \div 1000)

\* max(total_chars // 4, 1)
estimate_tokens(total_chars) ==
    IF total_chars \div 4 > 1 THEN total_chars \div 4 ELSE 1

\* no function has been called yet
NoPureCall == [fn |-> None]

PureOnly ==
    UNCHANGED <<registry, regCalls, lastReg, users, usage_logs, billing_history, redis,
                req, purchases, now, client, winStart, winPassed, adapter,
                failed_attempts, resp, payment_intents, issued_keys>>

\* the (provider, model) pairs and content lengths chat_completion prices
CostProviders == Providers \cup {"unknown"}
CostModels ==
    {"gpt-3.5-turbo", "gpt-4", "gpt-4-turbo", "gpt-4o", "claude-3-sonnet",
     "claude-3-haiku", "claude-3-opus", "claude-3-opus-20240229", "gemini-pro",
     "gemini", "mistral-small", "mistral-large", "command", "command-light"}
ContentLengths == {0, 3, 4, 7, 8, 400, 4000, 12000}

\* chat_completion: estimated_tokens, then calculate_cost
ComputeCost(provider, model, total_chars) ==
    /\ call' = [fn |-> "calculate_cost", provider |-> provider, model |-> model,
                total_chars |-> total_chars,
                tokens |-> estimate_tokens(total_chars),
                cost |-> calculate_cost(provider, model, estimate_tokens(total_chars))]
    /\ PureOnly

(***************************************************************************)
(* Bearer tokens (main_phase2.py is_jwt, auth.py generate_api_key).        *)
(* A token is a sequence of characters, each given by its class: "x" a     *)
(* letter or digit, "+" one of the other two characters of the base64      *)
(* alphabet, "_" any other ASCII character but the dot and the pad, "."    *)
(* the dot, "=" the pad, "u" a character outside ASCII.                    *)
(***************************************************************************)
MaxTokenLen == 4

Symbols == {"x", "+", "_", ".", "=", "u"}

\* range(32) in generate_api_key
KeyChars == 32

\* "unillm_" + 32 characters of string.ascii_letters + string.digits
generate_api_key ==
    <<"x", "x", "x", "x", "x", "x", "_">> \o [k \in 1..KeyChars |-> "x"]

Tokens ==
    UNION {[1..n -> Symbols] : n \in 0..MaxTokenLen} \cup {generate_api_key}

\* token.split('.')
RECURSIVE split(_)
split(token) ==
    IF \A k \in DOMAIN token : token[k] # "." THEN <<token>>
    ELSE LET d == CHOOSE k \in DOMAIN token :
                      token[k] = "." /\ \A j \in 1..(k - 1) : token[j] # "."
         IN  <<SubSeq(token, 1, d - 1)>> \o split(SubSeq(token, d + 1, Len(token)))

\* binascii.a2b_base64 without strict mode, from position k with quad_pos
\* characters of the current group read and pads pad characters seen: TRUE if
\* it returns, FALSE if it raises binascii.Error
RECURSIVE a2b_base64(_, _, _, _)
a2b_base64(data, k, quad_pos, pads) ==
    IF k > Len(data) THEN quad_pos = 0
    ELSE IF data[k] = "="
         THEN IF quad_pos >= 2 /\ quad_pos + pads + 1 >= 4 THEN TRUE
              ELSE a2b_base64(data, k + 1, quad_pos,
                              IF quad_pos >= 2 THEN pads + 1 ELSE pads)
    ELSE IF data[k] \in {"x", "+"}
         THEN a2b_base64(data, k + 1, (quad_pos + 1) % 4, 0)
    ELSE a2b_base64(data, k + 1, quad_pos, pads)

\* base64.b64decode(s) of a str: TRUE if it returns, FALSE if it raises
\* (ValueError for a character outside ASCII, binascii.Error otherwise)
b64decode(s) ==
    IF \E k \in DOMAIN s : s[k] = "u" THEN FALSE
    ELSE a2b_base64(s, 1, 0, 0)

\* '=' * (-len(parts[0]) % 4)
Padding(n) == [k \in 1..((4 - (n % 4)) % 4) |-> "="]

\* as is_jwt, without the checks of the dots
is_jwt_first_part_only(token) ==
    LET parts == split(token)
    IN  b64decode(parts[1] \o Padding(Len(parts[1])))

is_jwt(token) ==
    IF token = << >> \/ \A k \in DOMAIN token : token[k] # "." THEN FALSE
    ELSE LET parts == split(token)
         IN  IF Len(parts) # 3 THEN FALSE
             ELSE b64decode(parts[1] \o Padding(Len(parts[1])))

\* "if is_jwt(token): get_current_user_jwt(...) else: get_current_user_api_key(...)"
IsJwt ==
    /\ call.fn = "is_jwt"
    /\ ~call.done
    /\ call' = [call EXCEPT !.done = TRUE,
                            !.result = is_jwt(call.token),
                            !.lookup = IF is_jwt(call.token) THEN "jwt" ELSE "api_key"]
    /\ PureOnly

(***************************************************************************)
(* Rate limiter (api_gateway/middleware.py)                                *)
(***************************************************************************)
\* "if current_count >= 60"
RateLimit == 60
\* ticks of the clock in the 60 seconds of redis_client.setex(key, 60, 1)
WindowTicks == 2
\* Redis TTL of a key without expiry
NoExpiry == -1

\* api_key = headers.get("authorization", ""); strip a leading "Bearer "
MiddlewareKey(hdr) ==
    IF hdr.scheme = "" /\ hdr.credentials = "" THEN ""
    ELSE IF hdr.scheme = "Bearer" THEN hdr.credentials
    ELSE hdr.scheme \o " " \o hdr.credentials

\* _check_rate_limit run without interleaving: <<allowed, redis afterwards>>
check_rate_limit(rd, key, t) ==
    IF key \notin DOMAIN rd
    THEN <<TRUE, DictSet(rd, key, [count |-> 1, expireAt |-> t + WindowTicks])>>
    ELSE IF rd[key].count >= RateLimit
         THEN <<FALSE, rd>>
         ELSE <<TRUE, [rd EXCEPT ![key].count = @ + 1]>>

(***************************************************************************)
(* Provider adapters (src/unillm/adapters/*.py) and the error mapping      *)
(* (src/unillm/exceptions.py)                                              *)
(***************************************************************************)
MaxCalls == 2

\* _make_request_with_retry(..., max_retries: int = 3)
max_retries == 3

\* What one requests.post yields: a response (its status and what its body
\* holds: a JSON error object whose message names an overload, another JSON
\* object, text that is not JSON, or nothing), a timeout, or another
\* requests exception.
StatusCodes == {200, 400, 401, 402, 403, 404, 429, 500, 503}
ResponseBodies == {"overloaded", "json", "not_json", "empty"}
NoResponse == [kind |-> None, status |-> 0, body |-> "empty"]
AttemptOutcomes ==
    [kind : {"response"}, status : StatusCodes, body : ResponseBodies]
        \cup {[NoResponse EXCEPT !.kind = "timeout"],
              [NoResponse EXCEPT !.kind = "connection_error"]}

\* response.json() on a body that is not JSON raises requests' JSONDecodeError,
\* which the adapters' except clauses turn into NetworkError where it is a
\* RequestException (requests >= 2.27) and let through otherwise
JsonFailure == {"NetworkError", "JSONDecodeError"}

\* the exception class handle_http_error returns
handle_http_error(status_code) ==
    IF status_code = 401 THEN "AuthenticationError"
    ELSE IF status_code = 429 THEN "RateLimitError"
    ELSE IF status_code = 402 THEN "QuotaExceededError"
    ELSE IF status_code = 404 THEN "ModelNotFoundError"
    ELSE IF status_code = 400 THEN "InvalidRequestError"
    ELSE IF status_code >= 500 THEN "ServerError"
    ELSE "UniLLMError"

NoAdapterCall ==
    [calls |-> 0, provider |-> None, valid |-> TRUE, pc |-> "idle", attempt |-> 0,
     posts |-> 0, last |-> NoResponse, result |-> None]

AdapterOnly ==
    UNCHANGED <<registry, regCalls, lastReg, users, usage_logs, billing_history, redis,
                req, purchases, now, client, winStart, winPassed, call,
                failed_attempts, resp, payment_intents, issued_keys>>

\* adapter.chat(request) up to the POST: _validate_request raises ValueError
\* for a request without messages
AdapterChat(provider, valid) ==
    /\ adapter.pc \in {"idle", "done"}
    /\ adapter.calls < MaxCalls
    /\ adapter' = [NoAdapterCall EXCEPT !.calls = adapter.calls + 1,
                                        !.provider = provider,
                                        !.valid = valid,
                                        !.pc = IF valid THEN "sending" ELSE "done",
                                        !.result = IF valid THEN None ELSE "ValueError"]
    /\ AdapterOnly

\* the results chat can end with once the POST has yielded outcome o; Gemini
\* reads the body of an error response only if there is one
ChatResults(provider, o) ==
    IF o.kind = "timeout" THEN {"TimeoutError"}
    ELSE IF o.kind = "connection_error" THEN {"NetworkError"}
    ELSE IF o.status # 200
         THEN IF o.body = "not_json" \/ (o.body = "empty" /\ provider # "gemini")
              THEN JsonFailure
              ELSE {handle_http_error(o.status)}
         ELSE IF o.body \in {"not_json", "empty"} THEN JsonFailure ELSE {"returned"}

\* OpenAI, Gemini, Mistral, Cohere: one requests.post, then the result
PlainAttempt_RetryTimeout(o, result) ==
    /\ adapter.pc = "sending"
    /\ adapter.provider # "anthropic"
    /\ IF o.kind = "timeout" /\ adapter.attempt < max_retries - 1
       THEN adapter' = [adapter EXCEPT !.posts = @ + 1, !.last = o, !.attempt = @ + 1]
       ELSE /\ result \in ChatResults(adapter.provider, o)
            /\ adapter' = [adapter EXCEPT !.posts = @ + 1, !.last = o, !.pc = "done",
                                          !.result = result]
    /\ AdapterOnly

PlainAttempt(o, result) ==
    /\ adapter.pc = "sending"
    /\ adapter.provider # "anthropic"
    /\ result \in ChatResults(adapter.provider, o)
    /\ adapter' = [adapter EXCEPT !.posts = @ + 1, !.last = o, !.pc = "done",
                                  !.result = result]
    /\ AdapterOnly

\* _make_request_with_retry: whether the loop sleeps and continues after the
\* attempt numbered attempt (from 0) has yielded o
should_retry_any_5xx(o, attempt) ==
    /\ attempt < max_retries - 1
    /\ \/ o.kind = "timeout"
       \/ o.kind = "response" /\ o.status >= 500

should_retry(o, attempt) ==
    /\ attempt < max_retries - 1
    /\ \/ o.kind = "timeout"
       \/ o.kind = "response" /\ o.status >= 500 /\ o.body = "overloaded"

\* AnthropicAdapter: one pass of the loop of _make_request_with_retry and,
\* when the loop is left, the rest of chat.  A 5xx body that is not JSON makes
\* response.json() raise inside the loop, outside its except clause.
AnthropicAttempt(o, result) ==
    /\ adapter.pc = "sending"
    /\ adapter.provider = "anthropic"
    /\ adapter.attempt < max_retries
    /\ IF should_retry(o, adapter.attempt)
       THEN adapter' = [adapter EXCEPT !.posts = @ + 1, !.last = o, !.attempt = @ + 1]
       ELSE /\ result \in ChatResults(adapter.provider, o)
            /\ adapter' = [adapter EXCEPT !.posts = @ + 1, !.last = o, !.pc = "done",
                                          !.result = result]
    /\ AdapterOnly

AdapterResults ==
    {"returned", "TimeoutError", "NetworkError", "JSONDecodeError",
     "AuthenticationError", "RateLimitError", "QuotaExceededError",
     "ModelNotFoundError", "InvalidRequestError", "ServerError", "UniLLMError"}

(***************************************************************************)
(* Gateway state (api_gateway/database.py, main_phase2.py)                 *)
(***************************************************************************)
MaxRequests == 2
MaxPurchases == 1

Requests == 1..MaxRequests

\* Authorization headers the clients send: scheme and credentials.  k1 is the
\* key register_user issues to u1 (a key no account has until then), k2 the
\* key of the disabled account u2, and the last one a JWT that login issued.
\* HTTPBearer accepts the scheme in any letter case.
ChatHeaders ==
    {[scheme |-> "Bearer", credentials |-> "unillm_k1"],
     [scheme |-> "bearer", credentials |-> "unillm_k1"],
     [scheme |-> "Bearer", credentials |-> "unillm_k2"],
     [scheme |-> "bearer", credentials |-> "unillm_k2"],
     [scheme |-> "Bearer", credentials |-> "eyJhbGciOiJIUzI1NiJ9.eyJzdWIiOiJlMSJ9.c2ln"]}

PurchaseHeaders ==
    {[scheme |-> "Bearer", credentials |-> "unillm_k1"]}

NoHeader == [scheme |-> "", credentials |-> ""]

\* CreditPurchase.amount is an unvalidated float: 0.05 and -0.2 dollars
PurchaseAmounts == {Dollar \div 20, 0 - (Dollar \div 5)}

\* Request bodies: the model name, the total number of characters of the
\* message contents, whether every message is a well-formed ChatMessage
\* (a role of system/user/assistant and a content), and the stream flag.
ChatBodies ==
    {[model |-> "gpt-4", chars |-> 3, valid |-> TRUE, stream |-> FALSE],
     [model |-> "gpt-4", chars |-> 12000, valid |-> TRUE, stream |-> FALSE],
     [model |-> "gpt-4", chars |-> 400, valid |-> FALSE, stream |-> FALSE],
     [model |-> "gpt-4", chars |-> 400, valid |-> TRUE, stream |-> TRUE],
     [model |-> "unknown-model", chars |-> 400, valid |-> TRUE, stream |-> FALSE],
     [model |-> "unknown-model", chars |-> 400, valid |-> FALSE, stream |-> FALSE]}

\* What the provider side answers to adapter.chat: 200, 404, another error
\* status or no answer at all; "no_api_key" is a deployment whose environment
\* lacks the provider's key, so that _get_adapter raises.
ProviderOutcomes == {"ok", "http_404", "http_error", "no_api_key"}

NewRequest ==
    [pc |-> "new", hdr |-> NoHeader, user |-> None, snap |-> 0, poor |-> FALSE,
     result |-> None, forwarded |-> FALSE, status |-> 0, by |-> None]

\* db.query(User).filter(User.api_key == api_key).first()
get_user_by_api_key(db, api_key) ==
    IF \E u \in DOMAIN db : db[u].api_key = api_key
    THEN CHOOSE u \in DOMAIN db : db[u].api_key = api_key
    ELSE None

\* the user get_current_user_api_key returns, None when it raises 401
get_current_user_api_key_any(db, credentials) ==
    get_user_by_api_key(db, credentials)

get_current_user_api_key(db, credentials) ==
    LET user == get_user_by_api_key(db, credentials)
    IN  IF user = None THEN None
        ELSE IF ~db[user].is_active THEN None
        ELSE user

\* the rows one request wrote to usage_logs
RowsOf(i) == {k \in DOMAIN usage_logs : usage_logs[k].req = i}

GatewayOnly ==
    UNCHANGED <<registry, regCalls, lastReg, now, client, winStart, winPassed, adapter, call,
                failed_attempts, resp, payment_intents, issued_keys>>

\* the response leaves; of the request only the answer is kept, and whether
\* the credit check saw the owner of its key without credits
Answer(i, code, component) ==
    [req EXCEPT ![i] = [NewRequest EXCEPT !.pc = "done", !.status = code,
                                          !.by = component,
                                          !.poor = req[i].poor]]

\* the handler answers: the outcome of llm_client.chat is kept with the answer
AnswerChat(i, code, r) ==
    [req EXCEPT ![i] = [NewRequest EXCEPT !.pc = "done", !.status = code,
                                          !.by = "handler",
                                          !.poor = req[i].poor,
                                          !.result = r[1], !.forwarded = r[3]]]

(***************************************************************************)
(* POST /auth/register (main_phase2.py register_user)                      *)
(***************************************************************************)
RegisterUser ==
    /\ ~(\E u \in DOMAIN users : users[u].email = "e1")
    /\ users' = DictSet(users, "u1",
                        [email |-> "e1", api_key |-> "unillm_k1",
                         credits |-> RoundTo(DEFAULT_CREDITS, CreditQuantum),
                         is_active |-> TRUE])
    /\ UNCHANGED <<usage_logs, billing_history, redis, req, purchases>>
    /\ GatewayOnly

(***************************************************************************)
(* POST /billing/purchase-credits behind the middleware stack.  The bearer *)
(* token is drawn from strings that is_jwt rejects, so the user is looked  *)
(* up by API key.                                                          *)
(***************************************************************************)
PurchaseCredits(hdr, amount, locked) ==
    LET rl == check_rate_limit(redis, MiddlewareKey(hdr), now)
        user == get_current_user_api_key(users, hdr.credentials)
    IN  /\ purchases < MaxPurchases
        /\ purchases' = purchases + 1
        /\ redis' = rl[2]
        /\ IF rl[1] /\ ~locked /\ user # None
           THEN /\ users' = [users EXCEPT ![user].credits =
                                RoundTo(@ + amount, CreditQuantum)]
                /\ billing_history' = Append(billing_history,
                        [user_id |-> user, amount |-> RoundTo(amount, CreditQuantum),
                         transaction_type |-> "credit_purchase"])
           ELSE UNCHANGED <<users, billing_history>>
        /\ UNCHANGED <<usage_logs, req>>
        /\ GatewayOnly

(***************************************************************************)
(* POST /chat/completions: the middleware stack, outermost first           *)
(* (RateLimitMiddleware, CreditCheckMiddleware,                            *)
(* BruteForceProtectionMiddleware), the get_current_user_api_key           *)
(* dependency and the handler chat_completion.                             *)
(***************************************************************************)
\* RateLimitMiddleware.__call__
RateLimitGate(i, hdr) ==
    LET rl == check_rate_limit(redis, MiddlewareKey(hdr), now)
    IN  /\ req[i].pc = "new"
        /\ IF i = 1 THEN TRUE ELSE req[i - 1].pc # "new"
        /\ redis' = rl[2]
        /\ req' = IF rl[1]
                  THEN [req EXCEPT ![i].pc = "credit", ![i].hdr = hdr]
                  ELSE Answer(i, 429, "rate_limit")
        /\ UNCHANGED <<users, usage_logs, billing_history, purchases>>
        /\ GatewayOnly

\* CreditCheckMiddleware.__call__
\* the owner of the request's key has no credits left
OwnerWithoutCredits(i) ==
    LET owner == get_user_by_api_key(users, req[i].hdr.credentials)
    IN  IF owner = None THEN FALSE ELSE users[owner].credits <= 0

CreditCheckGate(i) ==
    LET user == get_user_by_api_key(users, MiddlewareKey(req[i].hdr))
        seen == [req EXCEPT ![i].poor = OwnerWithoutCredits(i)]
    IN  /\ req[i].pc = "credit"
        /\ req' = IF user # None /\ users[user].credits <= 0
                  THEN [seen EXCEPT ![i].pc = "done", ![i].status = 402,
                                    ![i].by = "credit_check", ![i].hdr = NoHeader]
                  ELSE [seen EXCEPT ![i].pc = "lockout"]
        /\ UNCHANGED <<users, usage_logs, billing_history, redis, purchases>>
        /\ GatewayOnly

\* BruteForceProtectionMiddleware.__call__; whether the client's address is
\* locked out is an input here
BruteForceGate(i, locked) ==
    /\ req[i].pc = "lockout"
    /\ req' = IF locked
              THEN Answer(i, 429, "brute_force")
              ELSE [req EXCEPT ![i].pc = "auth"]
    /\ UNCHANGED <<users, usage_logs, billing_history, redis, purchases>>
    /\ GatewayOnly

\* Depends(get_current_user_api_key): the session loads the user row
Authenticate(i) ==
    LET user == get_current_user_api_key(users, req[i].hdr.credentials)
    IN  /\ req[i].pc = "auth"
        /\ req' = IF user = None
                  THEN Answer(i, 401, "auth")
                  ELSE [req EXCEPT ![i].pc = "handler", ![i].hdr = NoHeader,
                                   ![i].user = user,
                                   ![i].snap = users[user].credits]
        /\ UNCHANGED <<users, usage_logs, billing_history, redis, purchases>>
        /\ GatewayOnly

\* llm_client.chat(...): <<result, provider, forwarded>>
llm_chat(reg, body, outcome) ==
    LET normalized_model == resolve_alias(reg, body.model)
        provider == get_provider(reg, normalized_model)
    IN  IF ~body.valid THEN <<"error", None, FALSE>>
        ELSE IF provider = None THEN <<"model_not_found", None, FALSE>>
        ELSE IF outcome = "no_api_key" THEN <<"error", None, FALSE>>
        ELSE IF body.stream THEN <<"error", None, FALSE>>
        ELSE IF outcome = "ok" THEN <<"ok", provider, TRUE>>
        ELSE IF outcome = "http_404" THEN <<"model_not_found", None, TRUE>>
        ELSE <<"error", None, TRUE>>

UsageLogRow(i, model, provider, tokens, cost, success) ==
    [req |-> i, user_id |-> req[i].user, model |-> model,
     provider |-> provider, tokens_used |-> tokens,
     cost |-> RoundTo(cost, CostQuantum), success |-> success]

\* current_user.credits -= Decimal(str(cost)), as the column stores it
Debit(credits, cost) == RoundTo(credits - cost, CreditQuantum)

\* The handler chat_completion runs from the provider call to the commit
\* without touching the database or the cache in between, so the call and
\* the commit that follows it are one step; the user row was loaded by
\* Authenticate, an earlier step.

\* as ChatSuccess, with UsageTrackingMiddleware logging the 200 once more
ChatSuccess_DoubleLog(i, body, outcome) ==
    LET r == llm_chat(registry, body, outcome)
        estimated_tokens == estimate_tokens(body.chars)
        cost == calculate_cost(r[2], body.model, estimated_tokens)
        row == UsageLogRow(i, body.model, r[2], estimated_tokens, cost, TRUE)
    IN  /\ req[i].pc = "handler"
        /\ r[1] = "ok"
        /\ users' = [users EXCEPT ![req[i].user].credits = Debit(req[i].snap, cost)]
        /\ usage_logs' = Append(Append(usage_logs, row), row)
        /\ req' = AnswerChat(i, 200, r)
        /\ UNCHANGED <<billing_history, redis, purchases>>
        /\ GatewayOnly

\* as ChatSuccess, with the debit applied to the row as it is stored at the
\* commit (UPDATE users SET credits = credits - :cost)
ChatSuccess_FreshBalance(i, body, outcome) ==
    LET r == llm_chat(registry, body, outcome)
        estimated_tokens == estimate_tokens(body.chars)
        cost == calculate_cost(r[2], body.model, estimated_tokens)
    IN  /\ req[i].pc = "handler"
        /\ r[1] = "ok"
        /\ users' = [users EXCEPT ![req[i].user].credits = Debit(@, cost)]
        /\ usage_logs' = Append(usage_logs,
                UsageLogRow(i, body.model, r[2], estimated_tokens, cost, TRUE))
        /\ req' = AnswerChat(i, 200, r)
        /\ UNCHANGED <<billing_history, redis, purchases>>
        /\ GatewayOnly

\* chat_completion, the try block: call, debit, log, commit, 200
ChatSuccess(i, body, outcome) ==
    LET r == llm_chat(registry, body, outcome)
        estimated_tokens == estimate_tokens(body.chars)
        cost == calculate_cost(r[2], body.model, estimated_tokens)
    IN  /\ req[i].pc = "handler"
        /\ r[1] = "ok"
        /\ users' = [users EXCEPT ![req[i].user].credits = Debit(req[i].snap, cost)]
        /\ usage_logs' = Append(usage_logs,
                UsageLogRow(i, body.model, r[2], estimated_tokens, cost, TRUE))
        /\ req' = AnswerChat(i, 200, r)
        /\ UNCHANGED <<billing_history, redis, purchases>>
        /\ GatewayOnly

\* chat_completion, except ModelNotFoundError
ChatModelNotFound(i, body, outcome) ==
    LET r == llm_chat(registry, body, outcome)
    IN  /\ req[i].pc = "handler"
        /\ r[1] = "model_not_found"
        /\ usage_logs' = Append(usage_logs,
                UsageLogRow(i, body.model, "unknown", 0, 0, FALSE))
        /\ req' = AnswerChat(i, 400, r)
        /\ UNCHANGED <<users, billing_history, redis, purchases>>
        /\ GatewayOnly

\* as ChatFailure, with the debit of the try block flushed by the commit
ChatFailure_Charged(i, body, outcome) ==
    LET r == llm_chat(registry, body, outcome)
        cost == calculate_cost("unknown", body.model, estimate_tokens(body.chars))
    IN  /\ req[i].pc = "handler"
        /\ r[1] = "error"
        /\ users' = [users EXCEPT ![req[i].user].credits = Debit(req[i].snap, cost)]
        /\ usage_logs' = Append(usage_logs,
                UsageLogRow(i, body.model, "unknown", 0, 0, FALSE))
        /\ req' = AnswerChat(i, 500, r)
        /\ UNCHANGED <<billing_history, redis, purchases>>
        /\ GatewayOnly

\* chat_completion, except Exception
ChatFailure(i, body, outcome) ==
    LET r == llm_chat(registry, body, outcome)
    IN  /\ req[i].pc = "handler"
        /\ r[1] = "error"
        /\ usage_logs' = Append(usage_logs,
                UsageLogRow(i, body.model, "unknown", 0, 0, FALSE))
        /\ req' = AnswerChat(i, 500, r)
        /\ UNCHANGED <<users, billing_history, redis, purchases>>
        /\ GatewayOnly

(***************************************************************************)
(* The gateway.  The database and the cache outlive the process, so the    *)
(* gateway starts on a database that may hold an account disabled by an    *)
(* operator (no endpoint clears is_active) and on a cache in which the     *)
(* window of one key may already hold RateLimit - 1 requests.              *)
(***************************************************************************)
Init ==
    /\ registry = initialize_default_models
    /\ regCalls = 0
    /\ lastReg = NoCall
    /\ users = [u \in {"u2"} |->
                  [email |-> "e2", api_key |-> "unillm_k2", credits |-> 0,
                   is_active |-> FALSE]]
    /\ usage_logs = << >>
    /\ billing_history = << >>
    /\ redis = [k \in {"unillm_k1"} |->
                  [count |-> RateLimit - MaxRequests, expireAt |-> WindowTicks]]
    /\ req = [i \in Requests |-> NewRequest]
    /\ purchases = 0
    /\ now = 0
    /\ client = EmptyDict
    /\ winStart = NoExpiry
    /\ winPassed = 0
    /\ failed_attempts = EmptyDict
    /\ resp = NoReply
    /\ payment_intents = EmptyDict
    /\ issued_keys = << >>
    /\ adapter = NoAdapterCall
    /\ call = NoPureCall

Next ==
    \/ RegisterUser
    \/ \E hdr \in PurchaseHeaders, amount \in PurchaseAmounts, locked \in BOOLEAN :
          PurchaseCredits(hdr, amount, locked)
    \/ \E i \in Requests, hdr \in ChatHeaders : RateLimitGate(i, hdr)
    \/ \E i \in Requests : CreditCheckGate(i)
    \/ \E i \in Requests, locked \in BOOLEAN : BruteForceGate(i, locked)
    \/ \E i \in Requests : Authenticate(i)
    \/ \E i \in Requests, body \in ChatBodies, outcome \in ProviderOutcomes :
          ChatSuccess(i, body, outcome)
    \/ \E i \in Requests, body \in ChatBodies, outcome \in ProviderOutcomes :
          ChatModelNotFound(i, body, outcome)
    \/ \E i \in Requests, body \in ChatBodies, outcome \in ProviderOutcomes :
          ChatFailure(i, body, outcome)

Spec == Init /\ [][Next]_vars

(***************************************************************************)
(* The rate limiter alone (RateLimitMiddleware._check_rate_limit): GET,    *)
(* SETEX and INCR are separate round trips to Redis, so the requests of    *)
(* several workers interleave between them and the clock advances between  *)
(* them.  All clients send the same bearer key.                            *)
(***************************************************************************)
NumClients == 2
MaxTime == 3

Clients == 1..NumClients
RateKey == "unillm_k1"

RateOnly ==
    UNCHANGED <<registry, regCalls, lastReg, users, usage_logs, billing_history, req,
                purchases, adapter, call,
                failed_attempts, resp, payment_intents, issued_keys>>

\* a request is passed on to the application at time now
CountPassed ==
    IF winStart = NoExpiry \/ now >= winStart + WindowTicks
    THEN winStart' = now /\ winPassed' = 1
    ELSE winPassed' = winPassed + 1 /\ UNCHANGED winStart

\* current = redis_client.get(key), and the branch the code takes on it
RedisGet(c) ==
    /\ client[c] \in {"idle", "passed", "rejected"}
    /\ client' = [client EXCEPT ![c] =
                    IF RateKey \notin DOMAIN redis THEN "setex"
                    ELSE IF redis[RateKey].count >= RateLimit THEN "rejected"
                    ELSE "incr"]
    /\ UNCHANGED <<redis, now, winStart, winPassed>>
    /\ RateOnly

\* redis_client.setex(key, 60, 1); return True
RedisSetex(c) ==
    /\ client[c] = "setex"
    /\ redis' = DictSet(redis, RateKey, [count |-> 1, expireAt |-> now + WindowTicks])
    /\ client' = [client EXCEPT ![c] = "passed"]
    /\ CountPassed
    /\ UNCHANGED now
    /\ RateOnly

\* redis_client.incr(key); return True.  INCR of a missing key creates it
\* with value 1 and no expiry.
RedisIncr(c) ==
    /\ client[c] = "incr"
    /\ redis' = IF RateKey \in DOMAIN redis
                THEN [redis EXCEPT ![RateKey].count = @ + 1]
                ELSE DictSet(redis, RateKey, [count |-> 1, expireAt |-> NoExpiry])
    /\ client' = [client EXCEPT ![c] = "passed"]
    /\ CountPassed
    /\ UNCHANGED now
    /\ RateOnly

\* time passes; Redis drops the keys whose time to live has run out
Tick ==
    /\ now < MaxTime
    /\ now' = now + 1
    /\ redis' = [k \in {x \in DOMAIN redis : redis[x].expireAt = NoExpiry
                                              \/ redis[x].expireAt > now + 1}
                    |-> redis[k]]
    /\ UNCHANGED <<client, winStart, winPassed>>
    /\ RateOnly

InitRate ==
    /\ registry = initialize_default_models
    /\ regCalls = 0
    /\ lastReg = NoCall
    /\ users = EmptyDict
    /\ usage_logs = << >>
    /\ billing_history = << >>
    /\ redis = EmptyDict
    /\ req = << >>
    /\ purchases = 0
    /\ now = 0
    /\ client = [c \in Clients |-> "idle"]
    /\ winStart = NoExpiry
    /\ winPassed = 0
    /\ failed_attempts = EmptyDict
    /\ resp = NoReply
    /\ payment_intents = EmptyDict
    /\ issued_keys = << >>
    /\ adapter = NoAdapterCall
    /\ call = NoPureCall

NextRate ==
    \/ \E c \in Clients : RedisGet(c)
    \/ \E c \in Clients : RedisSetex(c)
    \/ \E c \in Clients : RedisIncr(c)
    \/ Tick

SpecRate == InitRate /\ [][NextRate]_vars

(***************************************************************************)
(* The gateway with POST /debug/reset-user-data (main_phase2.py            *)
(* reset_user_data) behind the middleware stack; the bearer token is drawn *)
(* from strings that is_jwt rejects.                                       *)
(***************************************************************************)
\* db.query(Table).filter(Table.user_id == user.id).delete()
DeleteRowsOf(rows, user) == SelectSeq(rows, LAMBDA r : r.user_id # user)

ResetUserData(hdr, locked) ==
    LET rl == check_rate_limit(redis, MiddlewareKey(hdr), now)
        user == get_current_user_api_key(users, hdr.credentials)
    IN  /\ redis' = rl[2]
        /\ IF rl[1] /\ ~locked /\ user # None
           THEN /\ billing_history' = DeleteRowsOf(billing_history, user)
                /\ usage_logs' = DeleteRowsOf(usage_logs, user)
                /\ users' = [users EXCEPT ![user].credits =
                                RoundTo(DEFAULT_CREDITS, CreditQuantum)]
           ELSE UNCHANGED <<users, usage_logs, billing_history>>
        /\ UNCHANGED <<req, purchases>>
        /\ GatewayOnly

NextReset ==
    \/ Next
    \/ \E hdr \in PurchaseHeaders, locked \in BOOLEAN : ResetUserData(hdr, locked)

SpecReset == Init /\ [][NextReset]_vars

(***************************************************************************)
(* The adapters alone: chat calls against a provider that answers          *)
(* arbitrarily                                                             *)
(***************************************************************************)
InitAdapter ==
    /\ registry = initialize_default_models
    /\ regCalls = 0
    /\ lastReg = NoCall
    /\ users = EmptyDict
    /\ usage_logs = << >>
    /\ billing_history = << >>
    /\ redis = EmptyDict
    /\ req = << >>
    /\ purchases = 0
    /\ now = 0
    /\ client = EmptyDict
    /\ winStart = NoExpiry
    /\ winPassed = 0
    /\ failed_attempts = EmptyDict
    /\ resp = NoReply
    /\ payment_intents = EmptyDict
    /\ issued_keys = << >>
    /\ adapter = NoAdapterCall
    /\ call = NoPureCall

NextAdapter ==
    \/ \E provider \in Providers, valid \in BOOLEAN : AdapterChat(provider, valid)
    \/ \E o \in AttemptOutcomes, result \in AdapterResults : PlainAttempt(o, result)
    \/ \E o \in AttemptOutcomes, result \in AdapterResults : AnthropicAttempt(o, result)

SpecAdapter == InitAdapter /\ [][NextAdapter]_vars

(***************************************************************************)
(* The pricing alone: calculate_cost on the inputs chat_completion gives it *)
(***************************************************************************)
InitPure ==
    /\ registry = initialize_default_models
    /\ regCalls = 0
    /\ lastReg = NoCall
    /\ users = EmptyDict
    /\ usage_logs = << >>
    /\ billing_history = << >>
    /\ redis = EmptyDict
    /\ req = << >>
    /\ purchases = 0
    /\ now = 0
    /\ client = EmptyDict
    /\ winStart = NoExpiry
    /\ winPassed = 0
    /\ failed_attempts = EmptyDict
    /\ resp = NoReply
    /\ payment_intents = EmptyDict
    /\ issued_keys = << >>
    /\ adapter = NoAdapterCall
    /\ call = NoPureCall

NextCost ==
    \E provider \in CostProviders, model \in CostModels, total_chars \in ContentLengths :
        ComputeCost(provider, model, total_chars)

SpecCost == InitPure /\ [][NextCost]_vars

(***************************************************************************)
(* The token dispatch alone: is_jwt on every token of the bounded set      *)
(***************************************************************************)
InitToken ==
    /\ registry = initialize_default_models
    /\ regCalls = 0
    /\ lastReg = NoCall
    /\ users = EmptyDict
    /\ usage_logs = << >>
    /\ billing_history = << >>
    /\ redis = EmptyDict
    /\ req = << >>
    /\ purchases = 0
    /\ now = 0
    /\ client = EmptyDict
    /\ winStart = NoExpiry
    /\ winPassed = 0
    /\ failed_attempts = EmptyDict
    /\ resp = NoReply
    /\ payment_intents = EmptyDict
    /\ issued_keys = << >>
    /\ adapter = NoAdapterCall
    /\ call \in {[fn |-> "is_jwt", token |-> t, done |-> FALSE, result |-> FALSE,
                   lookup |-> None] : t \in Tokens}

NextToken == IsJwt

SpecToken == InitToken /\ [][NextToken]_vars

(***************************************************************************)
(* RateLimitMiddleware.__call__ alone, on requests to any path with any    *)
(* Authorization header; _check_rate_limit runs without interleaving and   *)
(* the window does not run out                                             *)
(***************************************************************************)
Paths == {"/health", "/chat/completions", "/billing/purchase-credits"}

ScopeHeaders ==
    {NoHeader,
     [scheme |-> "Bearer", credentials |-> ""],
     [scheme |-> "Bearer", credentials |-> "unillm_k1"],
     [scheme |-> "bearer", credentials |-> "unillm_k1"]}

RateLimitMiddleware(path, hdr) ==
    LET api_key == MiddlewareKey(hdr)
        rl == check_rate_limit(redis, api_key, now)
    IN  /\ IF path = "/health" \/ api_key = ""
           THEN /\ redis' = redis
                /\ call' = [fn |-> "rate_limit", path |-> path, hdr |-> hdr,
                            passed |-> TRUE]
           ELSE /\ redis' = rl[2]
                /\ call' = [fn |-> "rate_limit", path |-> path, hdr |-> hdr,
                            passed |-> rl[1]]
        /\ UNCHANGED <<registry, regCalls, lastReg, users, usage_logs, billing_history,
                       req, purchases, now, client, winStart, winPassed, adapter,
                       failed_attempts, resp, payment_intents, issued_keys>>

NextScope == \E path \in Paths, hdr \in ScopeHeaders : RateLimitMiddleware(path, hdr)

SpecScope == InitPure /\ [][NextScope]_vars

(***************************************************************************)
(* The registry alone: construction, then register_model calls             *)
(***************************************************************************)
InitRegistry ==
    /\ registry = initialize_default_models
    /\ regCalls = 0
    /\ lastReg = NoCall
    /\ users = EmptyDict
    /\ usage_logs = << >>
    /\ billing_history = << >>
    /\ redis = EmptyDict
    /\ req = << >>
    /\ purchases = 0
    /\ now = 0
    /\ client = EmptyDict
    /\ winStart = NoExpiry
    /\ winPassed = 0
    /\ failed_attempts = EmptyDict
    /\ resp = NoReply
    /\ payment_intents = EmptyDict
    /\ issued_keys = << >>
    /\ adapter = NoAdapterCall
    /\ call = NoPureCall

NextRegistry == \E m \in RegNames, p \in RegProviders : RegisterModel(m, p)

SpecRegistry == InitRegistry /\ [][NextRegistry]_vars

(***************************************************************************)
(* The middleware stack of main_phase2.py.  app.add_middleware puts each   *)
(* middleware around the ones added before it, so a request meets, in this *)
(* order: RateLimitMiddleware, CreditCheckMiddleware,                      *)
(* BruteForceProtectionMiddleware, RequestLoggingMiddleware,               *)
(* SecurityHeadersMiddleware, CORSMiddleware, SessionMiddleware, the       *)
(* application; the response travels back through the same components in   *)
(* the reverse order, starting from the one that produced it.              *)
(* A request is handled in one step.  The clock counts ticks of            *)
(* 60 / WindowTicks seconds.                                               *)
(***************************************************************************)
MaxHttp == 7

max_attempts == 5
\* lockout_time = 900 seconds, in ticks
lockout_time == 15 * WindowTicks

BruteForceExempt == {"/health", "/auth/check-password-strength", "/test"}

\* The requests sent: logins with the password of u1 and with a wrong one
\* (no Authorization header), and requests with the key of the active
\* account u1, with the key of the disabled account u2 that has no credits,
\* and without a key.
NoBody == [email |-> "", password |-> ""]
Request(ip, path, hdr, body) == [ip |-> ip, path |-> path, hdr |-> hdr, body |-> body]
StackRequests ==
    {Request("ip1", "/auth/login", NoHeader, [email |-> "e1", password |-> "wrong"]),
     Request("ip1", "/auth/login", NoHeader, [email |-> "e1", password |-> "pw1"]),
     Request("ip2", "/auth/login", NoHeader, [email |-> "e1", password |-> "wrong"]),
     Request("ip1", "/auth/me", [scheme |-> "Bearer", credentials |-> "unillm_k1"], NoBody),
     Request("ip2", "/auth/me", [scheme |-> "Bearer", credentials |-> "unillm_k2"], NoBody),
     Request("ip1", "/chat/completions",
             [scheme |-> "Bearer", credentials |-> "unillm_k2"], NoBody),
     Request("ip1", "/health", NoHeader, NoBody)}

\* pwd_context.hash and pwd_context.verify: a hash verifies exactly the
\* password it was made from
get_password_hash(password) == <<"bcrypt", password>>
verify_password(plain_password, hashed_password) ==
    hashed_password = get_password_hash(plain_password)

get_user_by_email(db, email) ==
    IF \E u \in DOMAIN db : db[u].email = email
    THEN CHOOSE u \in DOMAIN db : db[u].email = email
    ELSE None

authenticate_user(db, email, password) ==
    LET user == get_user_by_email(db, email)
    IN  IF user = None THEN None
        ELSE IF ~verify_password(password, db[user].password_hash) THEN None
        ELSE user

\* a response as the component "by" produces it
Reply(status, by) == [status |-> status, by |-> by, headers |-> {}, through |-> {by}]

\* login_user
login_user(db, body) ==
    LET user == authenticate_user(db, body.email, body.password)
    IN  IF user = None THEN 401
        ELSE IF ~db[user].is_active THEN 401
        ELSE 200

\* config.py: ACCESS_TOKEN_EXPIRE_MINUTES; a minute is WindowTicks ticks
ACCESS_TOKEN_EXPIRE_MINUTES == 30
TokenLife == ACCESS_TOKEN_EXPIRE_MINUTES * WindowTicks

\* The bearer tokens in circulation that have the form of a JWT: the payload
\* (sub, exp) and whether the signature verifies under SECRET_KEY.
\* "jwt.admin.old" was issued TokenLife before the instant 0.
IssuedTokens ==
    [x \in {"jwt.admin", "jwt.admin.old", "jwt.user", "jwt.disabled",
            "jwt.forged", "jwt.gone"} |->
        CASE x = "jwt.admin" -> [sub |-> "ea", exp |-> TokenLife, signed |-> TRUE]
          [] x = "jwt.admin.old" -> [sub |-> "ea", exp |-> 0, signed |-> TRUE]
          [] x = "jwt.user" -> [sub |-> "e1", exp |-> TokenLife, signed |-> TRUE]
          [] x = "jwt.disabled" -> [sub |-> "e2", exp |-> TokenLife, signed |-> TRUE]
          [] x = "jwt.forged" -> [sub |-> "ea", exp |-> TokenLife, signed |-> FALSE]
          [] x = "jwt.gone" -> [sub |-> "e9", exp |-> TokenLife, signed |-> TRUE]]

\* verify_token: jwt.decode raises JWTError for a string that is no JWT, for
\* a signature that does not verify and for an exp in the past
verify_token(token) ==
    IF token \notin DOMAIN IssuedTokens THEN None
    ELSE IF ~IssuedTokens[token].signed THEN None
    ELSE IF IssuedTokens[token].exp < now THEN None
    ELSE IssuedTokens[token].sub

\* get_current_user_jwt: <<status, user>>
get_current_user_jwt(db, token) ==
    LET email == verify_token(token)
        user == get_user_by_email(db, email)
    IN  IF email = None THEN <<401, None>>
        ELSE IF user = None THEN <<401, None>>
        ELSE IF ~db[user].is_active THEN <<401, None>>
        ELSE <<200, user>>

\* require_admin without the is_admin test
require_admin_any_user(db, token) == get_current_user_jwt(db, token)

\* require_admin: <<status, user>>
require_admin(db, token) ==
    LET r == get_current_user_jwt(db, token)
    IN  IF r[1] # 200 THEN r
        ELSE IF ~db[r[2]].is_admin THEN <<403, None>>
        ELSE r

\* PaymentProcessor.refund_payment: <<status, billing_history afterwards>>.
\* Stripe refunds a payment intent it knows as succeeded and raises a
\* StripeError (400) for any other.
refund_payment(rows, intents, id) ==
    IF id \notin DOMAIN intents THEN <<400, rows>>
    ELSE IF intents[id].status # "succeeded" THEN <<400, rows>>
    ELSE LET found == {k \in DOMAIN rows :
                          /\ "stripe_payment_intent_id" \in DOMAIN rows[k]
                          /\ rows[k].stripe_payment_intent_id = id}
         IN  IF found = {} THEN <<200, rows>>
             ELSE LET billing_record == rows[CHOOSE k \in found : \A j \in found : k <= j]
                  IN  <<200, Append(rows, [user_id |-> billing_record.user_id,
                                          amount |-> 0 - billing_record.amount,
                                          transaction_type |-> "refund"])>>

AdminPaths == {"/admin/users", "/admin/stats", "/billing/refund"}

\* refund_payment, get_all_users and get_admin_stats behind
\* Depends(require_admin): the status answered.  get_admin_stats reads
\* db.func, which a Session does not have, and fails with 500.
AdminEndpoint(db, path, hdr, body) ==
    LET admin == require_admin(db, hdr.credentials)
    IN  IF admin[1] # 200 THEN admin[1]
        ELSE IF path = "/billing/refund"
             THEN refund_payment(billing_history, payment_intents,
                                 body.payment_intent_id)[1]
        ELSE IF path = "/admin/stats" THEN 500
        ELSE 200

\* The status the application answers.  HTTPBearer answers 403 without an
\* Authorization header; the bearer tokens here are strings is_jwt rejects;
\* the chat requests carry a body that fails validation (422), so that no
\* handler of this specification writes to the database.
Application(db, path, hdr, body) ==
    IF path = "/health" THEN 200
    ELSE IF path = "/auth/login" THEN login_user(db, body)
    ELSE IF hdr = NoHeader THEN 403
    ELSE IF path \in AdminPaths THEN AdminEndpoint(db, path, hdr, body)
    ELSE IF get_current_user_api_key(db, hdr.credentials) = None THEN 401
    ELSE IF path = "/chat/completions" THEN 422
    ELSE 200

\* SecurityHeadersMiddleware.send_wrapper (the headers of every environment)
security_headers ==
    {"x-frame-options", "x-content-type-options", "x-xss-protection",
     "referrer-policy", "server", "content-security-policy"}

SecurityHeadersMiddleware(db, path, hdr, body) ==
    LET r == Reply(Application(db, path, hdr, body), "app")
    IN  [r EXCEPT !.headers = @ \cup security_headers,
                  !.through = @ \cup {"security_headers"}]

\* _is_locked_out with the comparison attempts > max_attempts
is_locked_out_after_six(fa, ip, t) ==
    IF ip \notin DOMAIN fa THEN <<FALSE, fa>>
    ELSE IF t - fa[ip].last_attempt > lockout_time THEN <<FALSE, DictDel(fa, ip)>>
    ELSE <<fa[ip].attempts > max_attempts, fa>>

\* _is_locked_out: <<locked, failed_attempts afterwards>>
is_locked_out(fa, ip, t) ==
    IF ip \notin DOMAIN fa THEN <<FALSE, fa>>
    ELSE IF t - fa[ip].last_attempt > lockout_time THEN <<FALSE, DictDel(fa, ip)>>
    ELSE <<fa[ip].attempts >= max_attempts, fa>>

record_failed_attempt(fa, ip, t) ==
    IF ip \in DOMAIN fa
    THEN DictSet(fa, ip, [attempts |-> fa[ip].attempts + 1, last_attempt |-> t])
    ELSE DictSet(fa, ip, [attempts |-> 1, last_attempt |-> t])

clear_failed_attempts(fa, ip) == DictDel(fa, ip)

\* BruteForceProtectionMiddleware.__call__ recording the 401 of every path
BruteForceProtectionMiddleware_AnyPath(db, fa, ip, path, hdr, body, t) ==
    LET lo == is_locked_out(fa, ip, t)
        inner == SecurityHeadersMiddleware(db, path, hdr, body)
        r == [inner EXCEPT !.through = @ \cup {"brute_force"}]
    IN  IF path \in BruteForceExempt THEN [reply |-> r, fa |-> fa]
        ELSE IF lo[1] THEN [reply |-> Reply(429, "brute_force"), fa |-> lo[2]]
        ELSE IF r.status = 401
             THEN [reply |-> r, fa |-> record_failed_attempt(lo[2], ip, t)]
        ELSE IF r.status = 200 /\ path = "/auth/login"
             THEN [reply |-> r, fa |-> clear_failed_attempts(lo[2], ip)]
        ELSE [reply |-> r, fa |-> lo[2]]

\* BruteForceProtectionMiddleware.__call__: the response and failed_attempts
\* afterwards (RequestLoggingMiddleware only prints)
BruteForceProtectionMiddleware(db, fa, ip, path, hdr, body, t) ==
    LET lo == is_locked_out(fa, ip, t)
        inner == SecurityHeadersMiddleware(db, path, hdr, body)
        r == [inner EXCEPT !.through = @ \cup {"brute_force"}]
    IN  IF path \in BruteForceExempt THEN [reply |-> r, fa |-> fa]
        ELSE IF lo[1] THEN [reply |-> Reply(429, "brute_force"), fa |-> lo[2]]
        ELSE IF r.status = 401 /\ path = "/auth/login"
             THEN [reply |-> r, fa |-> record_failed_attempt(lo[2], ip, t)]
        ELSE IF r.status = 200 /\ path = "/auth/login"
             THEN [reply |-> r, fa |-> clear_failed_attempts(lo[2], ip)]
        ELSE [reply |-> r, fa |-> lo[2]]

\* CreditCheckMiddleware.__call__
CreditCheckMiddleware(db, fa, ip, path, hdr, body, t) ==
    LET api_key == MiddlewareKey(hdr)
        user == get_user_by_api_key(db, api_key)
        no_credits == IF path # "/chat/completions" THEN FALSE
                      ELSE IF api_key = "" THEN FALSE
                      ELSE IF user = None THEN FALSE
                      ELSE db[user].credits <= 0
        inner == BruteForceProtectionMiddleware(db, fa, ip, path, hdr, body, t)
    IN  IF no_credits THEN [reply |-> Reply(402, "credit_check"), fa |-> fa]
        ELSE [inner EXCEPT !.reply.through = @ \cup {"credit_check"}]

\* the stack with CreditCheckMiddleware around RateLimitMiddleware
HttpRequest_CreditCheckFirst(ip, path, hdr, body) ==
    LET api_key == MiddlewareKey(hdr)
        limited == IF path = "/health" THEN FALSE ELSE api_key # ""
        rl == check_rate_limit(redis, api_key, now)
        inner == CreditCheckMiddleware(users, failed_attempts, ip, path, hdr, body, now)
        sent(r, counted) ==
            [n |-> resp.n + 1, ip |-> ip, path |-> path, hdr |-> hdr,
             status |-> r.status, by |-> r.by, headers |-> r.headers,
             through |-> r.through \cup {"rate_limit"}, counted |-> counted]
    IN  /\ resp.n < MaxHttp
        /\ IF inner.reply.by = "credit_check"
           THEN /\ redis' = redis
                /\ failed_attempts' = failed_attempts
                /\ resp' = sent(inner.reply, FALSE)
           ELSE IF limited
           THEN IF rl[1]
                THEN /\ redis' = rl[2]
                     /\ failed_attempts' = inner.fa
                     /\ resp' = sent(inner.reply, TRUE)
                ELSE /\ redis' = rl[2]
                     /\ failed_attempts' = failed_attempts
                     /\ resp' = sent(Reply(429, "rate_limit"), FALSE)
           ELSE /\ redis' = redis
                /\ failed_attempts' = inner.fa
                /\ resp' = sent(inner.reply, FALSE)
        /\ UNCHANGED <<registry, regCalls, lastReg, users, usage_logs, billing_history,
                       req, purchases, now, client, winStart, winPassed, adapter, call,
                       payment_intents, issued_keys>>

\* One HTTP request from address ip through the whole stack, entered at
\* RateLimitMiddleware.__call__.  resp keeps the request, its response, the
\* components the request came through and whether the rate limiter counted
\* it in the window of its key.
HttpRequest(ip, path, hdr, body) ==
    LET api_key == MiddlewareKey(hdr)
        limited == IF path = "/health" THEN FALSE ELSE api_key # ""
        rl == check_rate_limit(redis, api_key, now)
        inner == CreditCheckMiddleware(users, failed_attempts, ip, path, hdr, body, now)
        sent(r, counted) ==
            [n |-> resp.n + 1, ip |-> ip, path |-> path, hdr |-> hdr,
             status |-> r.status, by |-> r.by, headers |-> r.headers,
             through |-> r.through \cup {"rate_limit"}, counted |-> counted]
    IN  /\ resp.n < MaxHttp
        /\ IF limited
           THEN IF rl[1]
                THEN /\ redis' = rl[2]
                     /\ failed_attempts' = inner.fa
                     /\ resp' = sent(inner.reply, TRUE)
                ELSE /\ redis' = rl[2]
                     /\ failed_attempts' = failed_attempts
                     /\ resp' = sent(Reply(429, "rate_limit"), FALSE)
           ELSE /\ redis' = redis
                /\ failed_attempts' = inner.fa
                /\ resp' = sent(inner.reply, FALSE)
        /\ UNCHANGED <<registry, regCalls, lastReg, users, usage_logs, billing_history,
                       req, purchases, now, client, winStart, winPassed, adapter, call,
                       payment_intents, issued_keys>>

\* the instants at which requests are sent: within one rate-limit window of
\* the start and of the instant one lockout time later
StackTimes == (0..WindowTicks) \cup (lockout_time..(lockout_time + WindowTicks))

\* time passes, one tick or the lockout time at once; Redis drops the keys
\* whose time to live has run out
StackTick(d) ==
    /\ now + d \in StackTimes
    /\ now' = now + d
    /\ redis' = [k \in {x \in DOMAIN redis : redis[x].expireAt = NoExpiry
                                              \/ redis[x].expireAt > now + d}
                    |-> redis[k]]
    /\ UNCHANGED <<client, winStart, winPassed>>
    /\ RateOnly

\* The database holds the active account u1 and the disabled account u2;
\* the window of u2's key is one request short of the limit.
InitStack ==
    /\ registry = initialize_default_models
    /\ regCalls = 0
    /\ lastReg = NoCall
    /\ users = [u \in {"u1", "u2"} |->
                  IF u = "u1"
                  THEN [email |-> "e1", api_key |-> "unillm_k1",
                        password_hash |-> get_password_hash("pw1"),
                        credits |-> RoundTo(DEFAULT_CREDITS, CreditQuantum),
                        is_active |-> TRUE]
                  ELSE [email |-> "e2", api_key |-> "unillm_k2",
                        password_hash |-> get_password_hash("pw2"),
                        credits |-> 0, is_active |-> FALSE]]
    /\ usage_logs = << >>
    /\ billing_history = << >>
    /\ redis = [k \in {"unillm_k2"} |->
                  [count |-> RateLimit - 1, expireAt |-> WindowTicks]]
    /\ req = << >>
    /\ purchases = 0
    /\ now = 0
    /\ client = EmptyDict
    /\ winStart = NoExpiry
    /\ winPassed = 0
    /\ failed_attempts = EmptyDict
    /\ resp = NoReply
    /\ payment_intents = EmptyDict
    /\ issued_keys = << >>
    /\ adapter = NoAdapterCall
    /\ call = NoPureCall

NextStack ==
    \/ \E r \in StackRequests : HttpRequest(r.ip, r.path, r.hdr, r.body)
    \/ \E d \in {1, lockout_time} : StackTick(d)

SpecStack == InitStack /\ [][NextStack]_vars

(***************************************************************************)
(* The account endpoints POST /auth/change-password, GET /api-keys,        *)
(* POST /api-keys and DELETE /api-keys/{key_id} (main_phase2.py), as the   *)
(* application answers the requests the middleware stack lets through.     *)
(* The bearer tokens are API keys, which is_jwt rejects.  A password is    *)
(* the sequence of the classes of its characters: "U" an uppercase letter, *)
(* "l" a lowercase letter, "d" a digit, "s" a special character.           *)
(***************************************************************************)
MaxAccountCalls == 4

MIN_PASSWORD_LENGTH == 8

Pw1 == <<"U", "l", "l", "l", "l", "l", "d", "s">>
Pw2 == <<"U", "U", "l", "l", "l", "d", "d", "s">>
PwWeak == <<"l", "l", "l", "l", "d">>
Passwords == {Pw1, Pw2, PwWeak}

\* validate_password_strength with REQUIRE_PASSWORD_COMPLEXITY at its
\* default: TRUE when it returns, FALSE when it raises HTTPException(400)
validate_password_strength(password) ==
    /\ Len(password) >= MIN_PASSWORD_LENGTH
    /\ \A class \in {"U", "l", "d", "s"} :
           \E k \in DOMAIN password : password[k] = class

\* the n-th key generate_api_key returns: a key no account has held before
generated_key(n) == "unillm_g" \o ToString(n)

\* the keys a client may send: those ever issued and one never issued
AccountKeys == {"unillm_k1", "unillm_k2", "unillm_kx"}
                   \cup {issued_keys[k] : k \in DOMAIN issued_keys}

Bearer(key) == [scheme |-> "Bearer", credentials |-> key]

NoPasswords == [current_password |-> << >>, new_password |-> << >>]

\* the response of an account endpoint, kept with its request
AccountReply(endpoint, hdr, body, status, detail) ==
    [n |-> resp.n + 1, endpoint |-> endpoint, hdr |-> hdr, body |-> body,
     status |-> status, detail |-> detail]

AccountOnly ==
    UNCHANGED <<registry, regCalls, lastReg, usage_logs, billing_history, redis, req,
                purchases, now, client, winStart, winPassed, adapter, call,
                failed_attempts, payment_intents>>

\* change_password: every exception raised inside the try block, the
\* HTTPException of a wrong current password and the one of
\* validate_password_strength included, is caught by "except Exception" and
\* answered 500
ChangePassword(hdr, body) ==
    LET user == get_current_user_api_key(users, hdr.credentials)
        sent(status, detail) ==
            AccountReply("change_password", hdr, body, status, detail)
    IN  /\ resp.n < MaxAccountCalls
        /\ IF user = None
           THEN /\ resp' = sent(401, "Invalid API key")
                /\ UNCHANGED users
           ELSE IF ~verify_password(body.current_password, users[user].password_hash)
           THEN /\ resp' = sent(500, "Failed to change password")
                /\ UNCHANGED users
           ELSE IF ~validate_password_strength(body.new_password)
           THEN /\ resp' = sent(500, "Failed to change password")
                /\ UNCHANGED users
           ELSE /\ users' = [users EXCEPT ![user].password_hash =
                                get_password_hash(body.new_password)]
                /\ resp' = sent(200, "Password changed successfully")
        /\ UNCHANGED issued_keys
        /\ AccountOnly

\* get_api_keys
GetApiKeys(hdr) ==
    LET user == get_current_user_api_key(users, hdr.credentials)
    IN  /\ resp.n < MaxAccountCalls
        /\ resp' = IF user = None
                   THEN AccountReply("get_api_keys", hdr, NoPasswords, 401,
                                     "Invalid authentication credentials")
                   ELSE AccountReply("get_api_keys", hdr, NoPasswords, 200,
                                     users[user].api_key)
        /\ UNCHANGED <<users, issued_keys>>
        /\ AccountOnly

\* create_api_key answering 200 without storing the new key
CreateApiKey_KeepOld(hdr) ==
    LET user == get_current_user_api_key(users, hdr.credentials)
        new_api_key == generated_key(Len(issued_keys) + 1)
    IN  /\ resp.n < MaxAccountCalls
        /\ IF user = None
           THEN /\ resp' = AccountReply("create_api_key", hdr, NoPasswords, 401,
                                        "Invalid authentication credentials")
                /\ UNCHANGED <<users, issued_keys>>
           ELSE /\ issued_keys' = Append(issued_keys, new_api_key)
                /\ UNCHANGED users
                /\ resp' = AccountReply("create_api_key", hdr, NoPasswords, 200,
                                        new_api_key)
        /\ AccountOnly

\* create_api_key
CreateApiKey(hdr) ==
    LET user == get_current_user_api_key(users, hdr.credentials)
        new_api_key == generated_key(Len(issued_keys) + 1)
    IN  /\ resp.n < MaxAccountCalls
        /\ IF user = None
           THEN /\ resp' = AccountReply("create_api_key", hdr, NoPasswords, 401,
                                        "Invalid authentication credentials")
                /\ UNCHANGED <<users, issued_keys>>
           ELSE /\ issued_keys' = Append(issued_keys, new_api_key)
                /\ users' = [users EXCEPT ![user].api_key = new_api_key]
                /\ resp' = AccountReply("create_api_key", hdr, NoPasswords, 200,
                                        new_api_key)
        /\ AccountOnly

\* delete_api_key
DeleteApiKey(hdr, key_id) ==
    LET user == get_current_user_api_key(users, hdr.credentials)
        new_api_key == generated_key(Len(issued_keys) + 1)
    IN  /\ resp.n < MaxAccountCalls
        /\ IF user = None
           THEN /\ resp' = AccountReply("delete_api_key", hdr, NoPasswords, 401,
                                        "Invalid authentication credentials")
                /\ UNCHANGED <<users, issued_keys>>
           ELSE IF key_id = "1"
           THEN /\ issued_keys' = Append(issued_keys, new_api_key)
                /\ users' = [users EXCEPT ![user].api_key = new_api_key]
                /\ resp' = AccountReply("delete_api_key", hdr, NoPasswords, 200,
                                        "API key regenerated successfully")
           ELSE /\ resp' = AccountReply("delete_api_key", hdr, NoPasswords, 404,
                                        "API key not found")
                /\ UNCHANGED <<users, issued_keys>>
        /\ AccountOnly

\* The database holds the active account u1 and the disabled account u2.
InitAccount ==
    /\ registry = initialize_default_models
    /\ regCalls = 0
    /\ lastReg = NoCall
    /\ users = [u \in {"u1", "u2"} |->
                  IF u = "u1"
                  THEN [email |-> "e1", api_key |-> "unillm_k1",
                        password_hash |-> get_password_hash(Pw1),
                        credits |-> RoundTo(DEFAULT_CREDITS, CreditQuantum),
                        is_active |-> TRUE]
                  ELSE [email |-> "e2", api_key |-> "unillm_k2",
                        password_hash |-> get_password_hash(Pw2),
                        credits |-> 0, is_active |-> FALSE]]
    /\ usage_logs = << >>
    /\ billing_history = << >>
    /\ redis = EmptyDict
    /\ req = << >>
    /\ purchases = 0
    /\ now = 0
    /\ client = EmptyDict
    /\ winStart = NoExpiry
    /\ winPassed = 0
    /\ failed_attempts = EmptyDict
    /\ resp = NoReply
    /\ payment_intents = EmptyDict
    /\ issued_keys = << >>
    /\ adapter = NoAdapterCall
    /\ call = NoPureCall

NextAccount ==
    \/ \E key \in AccountKeys, current_password \in Passwords, new_password \in Passwords :
           ChangePassword(Bearer(key), [current_password |-> current_password,
                                        new_password |-> new_password])
    \/ \E key \in AccountKeys : GetApiKeys(Bearer(key))
    \/ \E key \in AccountKeys : CreateApiKey(Bearer(key))
    \/ \E key \in AccountKeys, key_id \in {"1", "2"} : DeleteApiKey(Bearer(key), key_id)

SpecAccount == InitAccount /\ [][NextAccount]_vars

(***************************************************************************)
(* Stripe payments (payment_processor.py; main_phase2.py                   *)
(* create_payment_intent, confirm_payment, stripe_webhook), as the         *)
(* application answers the requests the middleware stack lets through.     *)
(* Stripe keeps the payment intents; the customer pays at Stripe, and      *)
(* Stripe delivers the event payment_intent.succeeded to /billing/webhook  *)
(* at least once.  In this specification users.credits and                 *)
(* billing_history.amount are counted in units of 10^-4 dollar, the        *)
(* resolution of the two DECIMAL(10, 4) columns.                           *)
(***************************************************************************)
MaxStripeCalls == 4

\* one credit in units of 10^-4
Credit == 10000

\* CREDIT_PACKAGES: credits -> price in units of 10^-4 dollar
CREDIT_PACKAGES ==
    [c \in {100, 500, 1000, 2000, 5000} |->
        CASE c = 100 -> 10 * Credit
          [] c = 500 -> 45 * Credit
          [] c = 1000 -> 80 * Credit
          [] c = 2000 -> 150 * Credit
          [] c = 5000 -> 350 * Credit]

\* PaymentIntentRequest.credit_amount: a package and a number that is none
CreditAmounts == {100, 250}

\* the id Stripe gives the n-th payment intent
payment_intent_id(n) == "pi_" \o ToString(n)

\* the ids a client or a webhook event may name
IntentIds == DOMAIN payment_intents \cup {"pi_unknown"}

StripeKeys == {"unillm_k1", "unillm_kx"}

StripeReply(endpoint, status) ==
    [n |-> resp.n + 1, endpoint |-> endpoint, status |-> status]

StripeOnly ==
    UNCHANGED <<registry, regCalls, lastReg, usage_logs, redis, req, purchases, now,
                client, winStart, winPassed, adapter, call, failed_attempts,
                issued_keys>>

\* create_payment_intent and PaymentProcessor.create_payment_intent
CreatePaymentIntent(hdr, credit_amount) ==
    LET user == get_current_user_api_key(users, hdr.credentials)
        id == payment_intent_id(Cardinality(DOMAIN payment_intents) + 1)
    IN  /\ resp.n < MaxStripeCalls
        /\ IF user = None
           THEN /\ resp' = StripeReply("create_payment_intent", 401)
                /\ UNCHANGED payment_intents
           ELSE IF credit_amount \notin DOMAIN CREDIT_PACKAGES
           THEN /\ resp' = StripeReply("create_payment_intent", 400)
                /\ UNCHANGED payment_intents
           ELSE /\ payment_intents' = DictSet(payment_intents, id,
                        [status |-> "requires_payment_method",
                         metadata |-> [user_id |-> user,
                                       credit_amount |-> credit_amount,
                                       amount_usd |-> CREDIT_PACKAGES[credit_amount]]])
                /\ resp' = StripeReply("create_payment_intent", 200)
        /\ UNCHANGED <<users, billing_history>>
        /\ StripeOnly

\* the customer pays at Stripe
PaymentSucceeds(id) ==
    /\ id \in DOMAIN payment_intents
    /\ payment_intents[id].status = "requires_payment_method"
    /\ payment_intents' = [payment_intents EXCEPT ![id].status = "succeeded"]
    /\ UNCHANGED <<users, billing_history, resp>>
    /\ StripeOnly

\* PaymentProcessor.process_payment_success: <<status, users, billing_history>>
process_payment_success(db, rows, intents, id) ==
    IF id \notin DOMAIN intents THEN <<400, db, rows>>
    ELSE IF intents[id].status # "succeeded" THEN <<400, db, rows>>
    ELSE LET md == intents[id].metadata
         IN  IF md.user_id \notin DOMAIN db THEN <<404, db, rows>>
             ELSE <<200,
                    [db EXCEPT ![md.user_id].credits = @ + md.credit_amount * Credit],
                    Append(rows, [user_id |-> md.user_id, amount |-> md.amount_usd,
                                  transaction_type |-> "credit_purchase",
                                  stripe_payment_intent_id |-> id])>>

\* confirm_payment
ConfirmPayment(hdr, id) ==
    LET user == get_current_user_api_key(users, hdr.credentials)
        r == process_payment_success(users, billing_history, payment_intents, id)
    IN  /\ resp.n < MaxStripeCalls
        /\ IF user = None
           THEN /\ resp' = StripeReply("confirm_payment", 401)
                /\ UNCHANGED <<users, billing_history>>
           ELSE /\ resp' = StripeReply("confirm_payment", r[1])
                /\ users' = r[2]
                /\ billing_history' = r[3]
        /\ UNCHANGED payment_intents
        /\ StripeOnly

\* stripe_webhook, WebhookHandler.handle_webhook and _handle_payment_success
\* for an event payment_intent.succeeded naming the intent id; every
\* exception is answered 400
StripeWebhook(id, signature_valid) ==
    LET r == process_payment_success(users, billing_history, payment_intents, id)
    IN  /\ resp.n < MaxStripeCalls
        /\ IF ~signature_valid
           THEN /\ resp' = StripeReply("stripe_webhook", 400)
                /\ UNCHANGED <<users, billing_history>>
           ELSE /\ resp' = StripeReply("stripe_webhook",
                                       IF r[1] = 200 THEN 200 ELSE 400)
                /\ users' = r[2]
                /\ billing_history' = r[3]
        /\ UNCHANGED payment_intents
        /\ StripeOnly

\* The database holds the active account u1 with the credits of a new
\* account; Stripe holds no payment intent.
InitStripe ==
    /\ registry = initialize_default_models
    /\ regCalls = 0
    /\ lastReg = NoCall
    /\ users = [u \in {"u1"} |->
                  [email |-> "e1", api_key |-> "unillm_k1",
                   credits |-> Credit \div 10, is_active |-> TRUE]]
    /\ usage_logs = << >>
    /\ billing_history = << >>
    /\ redis = EmptyDict
    /\ req = << >>
    /\ purchases = 0
    /\ now = 0
    /\ client = EmptyDict
    /\ winStart = NoExpiry
    /\ winPassed = 0
    /\ failed_attempts = EmptyDict
    /\ resp = NoReply
    /\ payment_intents = EmptyDict
    /\ issued_keys = << >>
    /\ adapter = NoAdapterCall
    /\ call = NoPureCall

NextStripe ==
    \/ \E key \in StripeKeys, credit_amount \in CreditAmounts :
           CreatePaymentIntent(Bearer(key), credit_amount)
    \/ \E id \in IntentIds : PaymentSucceeds(id)
    \/ \E key \in StripeKeys, id \in IntentIds : ConfirmPayment(Bearer(key), id)
    \/ \E id \in IntentIds, signature_valid \in BOOLEAN : StripeWebhook(id, signature_valid)

SpecStripe == InitStripe /\ [][NextStripe]_vars

(***************************************************************************)
(* The admin endpoints behind the middleware stack (main_phase2.py         *)
(* refund_payment, get_all_users, get_admin_stats).                        *)
(***************************************************************************)
MaxAdminCalls == 3

RefundBody(id) == [payment_intent_id |-> id]

\* the requests sent: every admin path with the token of the administrator
\* and of an ordinary user, one path with every other kind of credential,
\* and requests from the address ip2
AdminRequests ==
    {Request("ip1", path, [scheme |-> "Bearer", credentials |-> token], NoBody) :
        path \in {"/admin/users", "/admin/stats"}, token \in {"jwt.admin", "jwt.user"}}
    \cup {Request("ip1", "/billing/refund",
                  [scheme |-> "Bearer", credentials |-> token], RefundBody(id)) :
            token \in {"jwt.admin", "jwt.user"}, id \in {"pi_1", "pi_unknown"}}
    \cup {Request("ip1", "/admin/users", [scheme |-> "Bearer", credentials |-> token],
                  NoBody) :
            token \in {"jwt.admin.old", "jwt.disabled", "jwt.forged", "jwt.gone",
                       "unillm_ka"}}
    \cup {Request("ip1", "/admin/users", NoHeader, NoBody),
          Request("ip2", "/billing/refund",
                  [scheme |-> "Bearer", credentials |-> "jwt.admin"], RefundBody("pi_1")),
          Request("ip2", "/admin/users",
                  [scheme |-> "Bearer", credentials |-> "jwt.user"], NoBody)}

\* The stack of HttpRequest around the admin endpoints: the reply, the
\* failed_attempts and the Redis it leaves, and whether the rate limiter
\* counted the request.
AdminStack(ip, path, hdr, body) ==
    LET api_key == MiddlewareKey(hdr)
        rl == check_rate_limit(redis, api_key, now)
    IN  IF api_key = ""
        THEN [out |-> CreditCheckMiddleware(users, failed_attempts, ip, path, hdr,
                                            body, now),
              redis |-> redis, counted |-> FALSE]
        ELSE IF rl[1]
        THEN [out |-> CreditCheckMiddleware(users, failed_attempts, ip, path, hdr,
                                            body, now),
              redis |-> rl[2], counted |-> TRUE]
        ELSE [out |-> [reply |-> Reply(429, "rate_limit"), fa |-> failed_attempts],
              redis |-> rl[2], counted |-> FALSE]

\* the request answered as the stack s answers: the refund the handler made
\* is written to billing_history
AdminAnswered(ip, path, hdr, body, s) ==
    /\ redis' = s.redis
    /\ failed_attempts' = s.out.fa
    /\ billing_history' =
          IF s.out.reply.by = "app" /\ s.out.reply.status = 200
             /\ path = "/billing/refund"
          THEN refund_payment(billing_history, payment_intents,
                              body.payment_intent_id)[2]
          ELSE billing_history
    /\ resp' = [n |-> resp.n + 1, ip |-> ip, path |-> path, hdr |-> hdr,
                status |-> s.out.reply.status, by |-> s.out.reply.by,
                headers |-> s.out.reply.headers,
                through |-> s.out.reply.through \cup {"rate_limit"},
                counted |-> s.counted]

\* one request to an admin endpoint
AdminRequest(ip, path, hdr, body) ==
    /\ resp.n < MaxAdminCalls
    /\ path \in AdminPaths
    /\ AdminAnswered(ip, path, hdr, body, AdminStack(ip, path, hdr, body))
    /\ UNCHANGED <<registry, regCalls, lastReg, users, usage_logs, req, purchases,
                   now, client, winStart, winPassed, adapter, call,
                   payment_intents, issued_keys>>

\* The database holds the administrator a1, the disabled administrator a2 and
\* the ordinary user u1, who bought credits with the payment intent pi_1.  The
\* window of u1's token is one request short of the limit, and the address ip2
\* has just failed max_attempts logins.
InitAdmin ==
    /\ registry = initialize_default_models
    /\ regCalls = 0
    /\ lastReg = NoCall
    /\ users = [u \in {"a1", "a2", "u1"} |->
                  [email |-> CASE u = "a1" -> "ea" [] u = "a2" -> "e2" [] u = "u1" -> "e1",
                   api_key |-> CASE u = "a1" -> "unillm_ka" [] u = "a2" -> "unillm_k2"
                                 [] u = "u1" -> "unillm_k1",
                   credits |-> 100 * Credit,
                   is_active |-> u # "a2",
                   is_admin |-> u # "u1"]]
    /\ usage_logs = << >>
    /\ billing_history = <<[user_id |-> "u1", amount |-> CREDIT_PACKAGES[100],
                            transaction_type |-> "credit_purchase",
                            stripe_payment_intent_id |-> "pi_1"]>>
    /\ redis = [k \in {"jwt.user"} |->
                  [count |-> RateLimit - 1, expireAt |-> WindowTicks]]
    /\ req = << >>
    /\ purchases = 0
    /\ now = 0
    /\ client = EmptyDict
    /\ winStart = NoExpiry
    /\ winPassed = 0
    /\ failed_attempts = [i \in {"ip2"} |->
                            [attempts |-> max_attempts, last_attempt |-> 0]]
    /\ resp = NoReply
    /\ payment_intents = [i \in {"pi_1"} |->
                            [status |-> "succeeded",
                             metadata |-> [user_id |-> "u1", credit_amount |-> 100,
                                           amount_usd |-> CREDIT_PACKAGES[100]]]]
    /\ issued_keys = << >>
    /\ adapter = NoAdapterCall
    /\ call = NoPureCall

NextAdmin ==
    \/ \E r \in AdminRequests : AdminRequest(r.ip, r.path, r.hdr, r.body)
    \/ \E d \in {1, lockout_time} : StackTick(d)

SpecAdmin == InitAdmin /\ [][NextAdmin]_vars

(***************************************************************************)
(* The pricing of successful chat requests (main_phase2.py                 *)
(* chat_completion, lines 425-459): requests of the account u1, one after  *)
(* the other, that pass the gates and whose provider call succeeds.        *)
(***************************************************************************)
MaxChats == 2

\* the model names sent: aliases, their canonical names and a plain name
PriceModels ==
    {"claude-3-opus", "claude-3-opus-20240229", "gemini", "gemini-pro", "gpt-4"}

\* total characters of the messages sent
PriceChars == {400, 4000}

\* chat_completion for the request (model, messages of chars characters)
ChatCompleted(model, chars) ==
    LET body == [model |-> model, chars |-> chars, valid |-> TRUE, stream |-> FALSE]
        r == llm_chat(registry, body, "ok")
        estimated_tokens == estimate_tokens(chars)
        cost == calculate_cost(r[2], model, estimated_tokens)
    IN  /\ Len(usage_logs) < MaxChats
        /\ r[1] = "ok"
        /\ users' = [users EXCEPT !["u1"].credits = Debit(@, cost)]
        /\ usage_logs' = Append(usage_logs,
                [req |-> Len(usage_logs) + 1, user_id |-> "u1", model |-> model,
                 provider |-> r[2], tokens_used |-> estimated_tokens,
                 cost |-> RoundTo(cost, CostQuantum), success |-> TRUE])
        /\ UNCHANGED <<registry, regCalls, lastReg, billing_history, redis, req,
                       purchases, now, client, winStart, winPassed, adapter, call,
                       failed_attempts, resp, payment_intents, issued_keys>>

NextPrice == \E model \in PriceModels, chars \in PriceChars : ChatCompleted(model, chars)

SpecPrice == InitAccount /\ [][NextPrice]_vars

(***************************************************************************)
(* Properties                                                              *)
(***************************************************************************)
Done(i) == req[i].pc = "done"

\* the step is the handler of request i answering
HandlerStep(i) == req[i].pc = "handler" /\ req'[i].pc = "done"

\* the step appends exactly the row "row" to usage_logs
LastRow == usage_logs'[Len(usage_logs')]
OneRowAppended ==
    /\ Len(usage_logs') = Len(usage_logs) + 1
    /\ SubSeq(usage_logs', 1, Len(usage_logs)) = usage_logs

\* credentials is the api_key of an active user
ValidKey(credentials) ==
    \E u \in DOMAIN users : users[u].api_key = credentials /\ users[u].is_active

\* C1 as stated: every /chat/completions request writes exactly one
\* UsageLog row, whatever its answer.
C1_OneRowPerRequest ==
    \A i \in Requests : Done(i) => Cardinality(RowsOf(i)) = 1

\* C1 amended: a /chat/completions request writes exactly one UsageLog row if
\* it reaches the handler (whether the provider call succeeds or fails) and
\* none if a middleware or the authentication answers it (429, 402, 401).
C1_OneRowPerHandledRequest ==
    \A i \in Requests :
        Cardinality(RowsOf(i)) = IF Done(i) /\ req[i].by = "handler" THEN 1 ELSE 0

C1_Witness ==
    \E i, j \in Requests :
        /\ Done(i) /\ req[i].status = 200 /\ Cardinality(RowsOf(i)) = 1
        /\ Done(j) /\ req[j].status = 500 /\ Cardinality(RowsOf(j)) = 1

\* C2: a successful chat request leaves the stored balance of its user at the
\* balance stored before its commit minus the cost it logged.
C2_DebitIsBalanceMinusCost ==
    [][\A i \in Requests :
          HandlerStep(i) /\ req'[i].status = 200 =>
              users'[LastRow.user_id].credits
                  = users[LastRow.user_id].credits - LastRow.cost]_vars

\* C3: no user's credit balance is ever negative.
C3_NoNegativeBalance ==
    \A u \in DOMAIN users : users[u].credits >= 0

\* C4: in a window of 60 seconds that starts at the first counted request of a
\* key, at most 60 requests are passed on to the application.
C4_AtMostLimitPerWindow == winPassed <= RateLimit

\* C5: the rate-limit counter never exists without an expiry.
C5_CounterAlwaysExpires ==
    \A k \in DOMAIN redis : redis[k].expireAt # NoExpiry

\* C6: a request whose key the credit check saw belonging to a user with
\* credits <= 0 is never forwarded to a provider and writes no UsageLog row.
C6_NoCreditsNeverForwarded ==
    \A i \in Requests : req[i].poor => ~req[i].forwarded /\ RowsOf(i) = {}

\* C7: when llm_client.chat raises an exception other than ModelNotFoundError,
\* the handler answers 500, appends one UsageLog row with success = FALSE and
\* cost 0, and changes no user row and no billing row.
C7_FailureLogsAndKeepsBalance ==
    [][\A i \in Requests :
          HandlerStep(i) /\ req'[i].result = "error" =>
              /\ req'[i].status = 500
              /\ OneRowAppended
              /\ LastRow.req = i /\ LastRow.success = FALSE /\ LastRow.cost = 0
              /\ users' = users
              /\ billing_history' = billing_history]_vars

C7_Witness ==
    \E i \in Requests :
        /\ Done(i) /\ req[i].result = "error" /\ req[i].forwarded
        /\ req[i].status = 500
        /\ \A k \in RowsOf(i) : ~usage_logs[k].success

\* C8: an authenticated chat request naming a model the registry does not
\* resolve is answered 400 without an adapter being called, logs one failed
\* row with provider 'unknown' and cost 0 and leaves the balance unchanged.
C8_UnknownModelAnswered400 ==
    [][\A i \in Requests :
          HandlerStep(i) /\ OneRowAppended
                /\ get_provider(registry, LastRow.model) = None =>
              /\ req'[i].status = 400
              /\ ~req'[i].forwarded
              /\ LastRow.success = FALSE /\ LastRow.provider = "unknown"
              /\ LastRow.cost = 0
              /\ users' = users]_vars

C10_FreshRegistryResolves ==
    regCalls = 0 =>
        /\ \A m \in DefaultModels \cup DefaultAliases :
              get_provider(registry, m) \in Providers
        /\ \A m \in UnregisteredNames : get_provider(registry, m) = None

C10_Witness ==
    /\ regCalls = 0
    /\ get_provider(registry, "claude-3-sonnet") = "anthropic"
    /\ get_provider(registry, "gemini") = "gemini"
    /\ get_provider(registry, "gpt-4") = "openai"
    /\ get_provider(registry, "unknown-model") = None

\* C11: after register_model(m, p), for a canonical name, an alias or a new
\* name m: get_provider(m) = p, is_model_supported(m), m is in
\* get_models_for_provider(p), and m is no longer in the models of the
\* provider q it was registered with before when q differs from p.
C11_LastWriteWins ==
    lastReg # NoCall =>
        /\ get_provider(registry, lastReg.model) = lastReg.provider
        /\ is_model_supported(registry, lastReg.model)
        /\ lastReg.model \in get_models_for_provider(registry, lastReg.provider)
        /\ lastReg.old_provider \notin {None, lastReg.provider} =>
               lastReg.model \notin get_models_for_provider(registry, lastReg.old_provider)

\* sum of f(row) over the rows of a table (a sequence of rows)
RECURSIVE SumOver(_, _, _)
SumOver(rows, k, u) ==
    IF k > Len(rows) THEN 0
    ELSE (IF rows[k].user_id = u
          THEN (IF "amount" \in DOMAIN rows[k] THEN rows[k].amount
                ELSE IF rows[k].success THEN rows[k].cost ELSE 0)
          ELSE 0) + SumOver(rows, k + 1, u)

NoRequestInProgress == \A i \in Requests : req[i].pc \in {"new", "done"}

\* C12: whenever no request is in progress, each user's credits equal the sum
\* of the amounts of the user's BillingHistory rows minus the sum of the costs
\* of the user's successful UsageLog rows.
C12_CreditsMatchLedger ==
    NoRequestInProgress =>
        \A u \in DOMAIN users :
            users[u].credits = SumOver(billing_history, 1, u) - SumOver(usage_logs, 1, u)

\* rows is what it was, possibly with rows appended
Extends(rows2, rows1) ==
    /\ Len(rows2) >= Len(rows1)
    /\ SubSeq(rows2, 1, Len(rows1)) = rows1

\* C13: UsageLog and BillingHistory are append-only: no step of any endpoint
\* deletes or modifies a row once it is written.
C13_TablesAppendOnly ==
    [][Extends(usage_logs', usage_logs) /\ Extends(billing_history', billing_history)]_vars

\* C14: the credit check rejects a request only on the balance stored at that
\* moment, and a successful handler writes the balance it loaded at
\* authentication minus its cost, whatever has been committed since; so two
\* concurrent requests of one account both pass the check on the same balance
\* and after both commits the balance is debited for one of them only, or is
\* negative (C14_Witness).
C14_DebitFromStaleBalance ==
    [][\A i \in Requests :
          /\ HandlerStep(i) /\ req'[i].status = 200 =>
                 users'[LastRow.user_id].credits
                     = RoundTo(req[i].snap - LastRow.cost, CreditQuantum)
          /\ req[i].pc = "credit" /\ req'[i].status = 402 =>
                 LET user == get_user_by_api_key(users, MiddlewareKey(req[i].hdr))
                 IN  user # None /\ users[user].credits <= 0]_vars

\* two requests of u1, 12000 characters each, both answered 200 and both
\* logged, with no purchase made: the balance is 0.10 - 0.108, not
\* 0.10 - 0.216
C14_Witness ==
    /\ billing_history = << >>
    /\ Len(usage_logs) = 2
    /\ \A k \in DOMAIN usage_logs :
           /\ usage_logs[k].success
           /\ usage_logs[k].user_id = "u1"
           /\ usage_logs[k].cost = calculate_cost("openai", "gpt-4", estimate_tokens(12000))
    /\ usage_logs[1].req # usage_logs[2].req
    /\ \A k \in DOMAIN usage_logs : ~req[usage_logs[k].req].poor
    /\ users["u1"].credits
           = DEFAULT_CREDITS - calculate_cost("openai", "gpt-4", estimate_tokens(12000))
    /\ users["u1"].credits < 0

\* the step is a requests.post of the call in progress
PostStep == adapter'.calls = adapter.calls /\ adapter'.posts = adapter.posts + 1

\* C15 as stated: an AnthropicAdapter.chat call makes at most 3 POST attempts
\* and ends with the attempt that yields status 200; a chat call of another
\* adapter issues exactly one POST.
C15_OnePostPerPlainCall ==
    /\ adapter.posts <= 3
    /\ adapter.pc = "sending" => adapter.last.status # 200 /\ adapter.posts < 3
    /\ adapter.pc = "done" /\ adapter.provider # "anthropic" => adapter.posts = 1

\* C15 amended: as stated, except that a call whose request _validate_request
\* rejects issues no POST at all, with any adapter.
C15_BoundedPosts ==
    /\ adapter.posts <= 3
    /\ adapter.pc = "sending" => adapter.last.status # 200 /\ adapter.posts < 3
    /\ adapter.pc = "done" /\ adapter.provider # "anthropic" =>
           adapter.posts = IF adapter.valid THEN 1 ELSE 0
    /\ adapter.pc = "done" /\ ~adapter.valid => adapter.posts = 0

C15_Witness ==
    /\ adapter.pc = "done" /\ adapter.provider = "anthropic"
    /\ adapter.posts = 3 /\ adapter.result = "ServerError"

\* C16 as stated: the Anthropic adapter makes a further attempt only after
\* an attempt that returned a 5xx response whose message names an overload.
C16_ResendOnlyAfterOverload ==
    [][PostStep /\ adapter.posts >= 1 =>
          /\ adapter.provider = "anthropic"
          /\ adapter.last.kind = "response"
          /\ adapter.last.status >= 500
          /\ adapter.last.body = "overloaded"]_vars

\* C16 amended: the Anthropic adapter makes a further attempt only after an
\* attempt that returned a 5xx response whose message names an overload or
\* after an attempt that timed out; after any other outcome the call ends.
C16_ResendAfterOverloadOrTimeout ==
    [][/\ PostStep /\ adapter.posts >= 1 =>
             /\ adapter.provider = "anthropic"
             /\ \/ adapter.last.kind = "timeout"
                \/ /\ adapter.last.kind = "response"
                   /\ adapter.last.status >= 500
                   /\ adapter.last.body = "overloaded"
       /\ PostStep /\ adapter'.pc = "sending" =>
             /\ adapter.provider = "anthropic"
             /\ \/ adapter'.last.kind = "timeout"
                \/ /\ adapter'.last.kind = "response"
                   /\ adapter'.last.status >= 500
                   /\ adapter'.last.body = "overloaded"]_vars

C16_Witness ==
    /\ adapter.provider = "anthropic" /\ adapter.pc = "done"
    /\ adapter.posts = 2 /\ adapter.last.status = 500 /\ adapter.last.body = "json"
    /\ adapter.result = "ServerError"

\* C19: every adapter raises, for each provider response with a status other
\* than 200, the exception handle_http_error maps the status to: 401
\* AuthenticationError, 429 RateLimitError, 402 QuotaExceededError, 404
\* ModelNotFoundError, 400 InvalidRequestError, 500 and above ServerError,
\* any other status UniLLMError.
C19_AdaptersRaiseMappedError ==
    adapter.pc = "done" /\ adapter.last.kind = "response" /\ adapter.last.status # 200 =>
        adapter.result =
            CASE adapter.last.status = 401 -> "AuthenticationError"
              [] adapter.last.status = 429 -> "RateLimitError"
              [] adapter.last.status = 402 -> "QuotaExceededError"
              [] adapter.last.status = 404 -> "ModelNotFoundError"
              [] adapter.last.status = 400 -> "InvalidRequestError"
              [] adapter.last.status >= 500 -> "ServerError"
              [] OTHER -> "UniLLMError"

\* the cost table has a rate for the pair
InTable(provider, model) ==
    IF provider \in DOMAIN PROVIDER_COSTS
    THEN model \in DOMAIN PROVIDER_COSTS[provider]
    ELSE FALSE

\* C17 as stated: the cost of a request equals (estimated_tokens / 1000) times
\* the cost-table rate of its (provider, model) pair, with estimated_tokens
\* the number of content characters divided by 4; that is,
\* 4 * cost = characters * (rate / 1000).
C17_CostIsTokensTimesRate ==
    IF call.fn = "calculate_cost"
    THEN InTable(call.provider, call.model) =>
             4 * call.cost
                 = call.total_chars * (PROVIDER_COSTS[call.provider][call.model] \div 1000)
    ELSE TRUE

\* C17 amended: estimated_tokens is the number of content characters divided
\* by 4 and rounded down, at least 1, and the cost is (estimated_tokens / 1000)
\* times the rate times 1.2, the rate being that of the (provider, model) pair
\* in the cost table and 0.01 for a pair the table does not have.
C17_CostIsTokensTimesRateWithMarkup ==
    call.fn = "calculate_cost" =>
        LET rate == IF InTable(call.provider, call.model)
                    THEN PROVIDER_COSTS[call.provider][call.model]
                    ELSE Dollar \div 100
        IN  /\ 4 * call.tokens <= call.total_chars \/ call.tokens = 1
            /\ 4 * call.tokens > call.total_chars - 4
            /\ call.tokens >= 1
            /\ 10 * call.cost = 12 * call.tokens * (rate \div 1000)

C17_Witness ==
    /\ call.fn = "calculate_cost"
    /\ call.provider = "openai" /\ call.model = "gpt-4" /\ call.total_chars = 4000
    /\ call.tokens = 1000
    /\ call.cost = (Dollar \div 1000) * 36

\* the part of a token before its first dot
FirstSegment(t) ==
    SubSeq(t, 1, Cardinality({k \in DOMAIN t : \A j \in 1..k : t[j] # "."}))

\* C18: is_jwt(t) is true exactly when t has three segments separated by
\* dots and its first segment base64-decodes; it is false for every key
\* generate_api_key produces, which is therefore looked up as an API key.
C18_IsJwtIffThreeDecodableSegments ==
    call.fn = "is_jwt" =>
        (call.done =>
            /\ call.result <=>
                   /\ Cardinality({k \in DOMAIN call.token : call.token[k] = "."}) = 2
                   /\ b64decode(FirstSegment(call.token)
                                    \o Padding(Len(FirstSegment(call.token))))
            /\ call.token = generate_api_key =>
                   ~call.result /\ call.lookup = "api_key")

C18_Witness ==
    /\ call.fn = "is_jwt"
    /\ call.done
    /\ call.token = generate_api_key
    /\ ~call.result

\* the counter of key k after a step is what it was before it
SameCounter(k) ==
    IF k \in DOMAIN redis THEN k \in DOMAIN redis' /\ redis'[k] = redis[k]
    ELSE k \notin DOMAIN redis'

\* C20: a request to /health or without an Authorization header is passed on
\* and creates or changes no counter; a request to another path with bearer
\* key c creates or changes no counter but that of c, is counted there when
\* it is passed on, and is rejected only when that counter has reached the
\* limit.
C20_RateLimitScope ==
    [][call'.fn = "rate_limit" =>
          LET c == call'.hdr.credentials
          IN  IF call'.path = "/health" \/ call'.hdr = NoHeader
              THEN call'.passed /\ redis' = redis
              ELSE /\ \A k \in (DOMAIN redis \cup DOMAIN redis') \ {c} : SameCounter(k)
                   /\ c # "" /\ call'.passed =>
                          /\ c \in DOMAIN redis'
                          /\ redis'[c].count
                                 = IF c \in DOMAIN redis THEN redis[c].count + 1 ELSE 1
                   /\ c # "" /\ ~call'.passed =>
                          /\ c \in DOMAIN redis
                          /\ redis[c].count >= RateLimit]_vars

(***************************************************************************)
(* C21: every HTTP response of the gateway carries the security headers    *)
(* x-frame-options, x-content-type-options, x-xss-protection,              *)
(* referrer-policy and content-security-policy, whichever component        *)
(* produced it, the 429 and 402 responses of the rate-limit, credit-check  *)
(* and brute-force middlewares included.                                   *)
(***************************************************************************)
C21_SecurityHeadersOnEveryResponse ==
    resp.n > 0 =>
        {"x-frame-options", "x-content-type-options", "x-xss-protection",
         "referrer-policy", "content-security-policy"} \subseteq resp.headers

\* the step is one HTTP request answered; resp' holds it and its response
HttpStep == resp'.n = resp.n + 1

\* the address has max_attempts recorded failures, the last one no more than
\* lockout_time ago
LockedOut(ip) ==
    IF ip \in DOMAIN failed_attempts
    THEN /\ failed_attempts[ip].attempts >= max_attempts
         /\ now - failed_attempts[ip].last_attempt <= lockout_time
    ELSE FALSE

\* the last recorded failure of the address is more than lockout_time ago
Expired(ip) ==
    IF ip \in DOMAIN failed_attempts
    THEN now - failed_attempts[ip].last_attempt > lockout_time
    ELSE FALSE

\* the record of the address is gone, or holds only the failure of this step
RecordDropped(ip) ==
    IF ip \in DOMAIN failed_attempts'
    THEN failed_attempts'[ip] = [attempts |-> 1, last_attempt |-> now]
    ELSE TRUE

(***************************************************************************)
(* C22 as stated: once an address has 5 recorded failed logins, each       *)
(* request from it to a path other than /health,                           *)
(* /auth/check-password-strength and /test is answered 429 without         *)
(* reaching the application until 900 seconds have passed since the last   *)
(* recorded failure; a request after that removes the record and is        *)
(* admitted.                                                               *)
(***************************************************************************)
C22_LockedOutAnswered429 ==
    [][HttpStep /\ resp'.path \notin BruteForceExempt =>
          /\ LockedOut(resp'.ip) => resp'.status = 429 /\ resp'.by # "app"
          /\ Expired(resp'.ip) => resp'.by = "app" /\ RecordDropped(resp'.ip)]_vars

(***************************************************************************)
(* C22 amended: a failed login adds one to the address's record unless the *)
(* last recorded failure is more than 900 seconds old, and the record      *)
(* never holds more than 5 failures.  While the record holds 5 failures    *)
(* and the last one is at most 900 seconds old, no request from the        *)
(* address to a path other than the three exempt ones reaches the          *)
(* application: it is answered 429 by the rate limiter, 402 by the credit  *)
(* check or else 429 by the lockout, and the record stays as it is.  Once  *)
(* the last failure is more than 900 seconds old the lockout rejects       *)
(* nothing, and the first request that reaches it removes the record.      *)
(***************************************************************************)
C22_LockoutBlocksApplication ==
    [][HttpStep /\ resp'.path \notin BruteForceExempt =>
          /\ LockedOut(resp'.ip) =>
                /\ resp'.by \in {"rate_limit", "credit_check", "brute_force"}
                /\ resp'.status = IF resp'.by = "credit_check" THEN 402 ELSE 429
                /\ failed_attempts' = failed_attempts
          /\ ~LockedOut(resp'.ip) => resp'.by # "brute_force"
          /\ Expired(resp'.ip) /\ resp'.by = "app" => RecordDropped(resp'.ip)
          /\ \A ip \in DOMAIN failed_attempts' :
                failed_attempts'[ip].attempts <= max_attempts
          /\ (/\ resp'.path = "/auth/login" /\ resp'.status = 401
              /\ resp'.by = "app" /\ resp'.ip \in DOMAIN failed_attempts
              /\ ~Expired(resp'.ip)) =>
                failed_attempts'[resp'.ip] =
                    [attempts |-> failed_attempts[resp'.ip].attempts + 1,
                     last_attempt |-> now]]_vars

\* the lockout answers 429 at the last instant of the lockout time
C22_Witness ==
    /\ resp.n > 0
    /\ resp.by = "brute_force"
    /\ resp.status = 429
    /\ resp.ip \in DOMAIN failed_attempts
    /\ failed_attempts[resp.ip].attempts = max_attempts
    /\ now - failed_attempts[resp.ip].last_attempt = lockout_time

(***************************************************************************)
(* C23 as stated: a successful login removes the failed-attempt record of  *)
(* its address, and a request to any other path, failed or successful,     *)
(* leaves failed_attempts as it is.                                        *)
(***************************************************************************)
C23_OnlyLoginsChangeRecord ==
    [][HttpStep =>
          /\ resp'.path = "/auth/login" /\ resp'.status = 200 =>
                resp'.ip \notin DOMAIN failed_attempts'
          /\ resp'.path # "/auth/login" => failed_attempts' = failed_attempts]_vars

(***************************************************************************)
(* C23 amended: a successful login removes the record of its address, and  *)
(* the first failed login after it starts a new record with one failure.   *)
(* A request to any other path leaves failed_attempts as it is, except     *)
(* that a request that reaches the lockout removes the record of its       *)
(* address when the last recorded failure is more than 900 seconds old.    *)
(* No request changes the record of another address.                       *)
(***************************************************************************)
C23_OnlyLoginsCountTowardLockout ==
    [][HttpStep =>
          /\ resp'.path = "/auth/login" /\ resp'.status = 200 =>
                resp'.ip \notin DOMAIN failed_attempts'
          /\ (/\ resp'.path = "/auth/login" /\ resp'.status = 401
              /\ resp'.by = "app" /\ resp'.ip \notin DOMAIN failed_attempts) =>
                failed_attempts'[resp'.ip] = [attempts |-> 1, last_attempt |-> now]
          /\ resp'.path # "/auth/login" =>
                IF resp'.by = "app" /\ resp'.path \notin BruteForceExempt
                                    /\ Expired(resp'.ip)
                THEN failed_attempts' = DictDel(failed_attempts, resp'.ip)
                ELSE failed_attempts' = failed_attempts
          /\ \A ip \in DOMAIN failed_attempts :
                ip # resp'.ip =>
                    /\ ip \in DOMAIN failed_attempts'
                    /\ failed_attempts'[ip] = failed_attempts[ip]]_vars

\* a request to another path was answered 401 while its address has four
\* recorded failures
C23_Witness ==
    /\ resp.n > 0
    /\ resp.path = "/auth/me"
    /\ resp.status = 401
    /\ resp.by = "app"
    /\ resp.ip \in DOMAIN failed_attempts
    /\ failed_attempts[resp.ip].attempts = max_attempts - 1

\* the step counts one request in the window of key
CountedIn(key) ==
    IF key \in DOMAIN redis
    THEN key \in DOMAIN redis' /\ redis'[key].count = redis[key].count + 1
    ELSE key \in DOMAIN redis' /\ redis'[key].count = 1

\* a request answered by the rate limiter reaches no component behind it
RateLimiterAnswersAlone ==
    resp'.by = "rate_limit" =>
        /\ resp'.status = 429
        /\ resp'.through = {"rate_limit"}
        /\ failed_attempts' = failed_attempts

(***************************************************************************)
(* C25 as stated: the gates apply in the order rate limiter, credit check, *)
(* brute-force lockout, authentication; a request answered 429 by the rate *)
(* limiter is examined by no later gate, and every request answered 402   *)
(* or 401 has been counted in a rate-limit window.                         *)
(***************************************************************************)
C25_EveryRejectionCounted ==
    [][HttpStep =>
          /\ RateLimiterAnswersAlone
          /\ resp'.status \in {401, 402} =>
                resp'.counted /\ CountedIn(MiddlewareKey(resp'.hdr))]_vars

(***************************************************************************)
(* C25 amended: the gates apply in the order rate limiter, credit check,   *)
(* brute-force lockout, authentication.  A request answered 429 by the     *)
(* rate limiter is examined by no later gate; the credit check answers     *)
(* only requests the rate limiter let through, the lockout only requests   *)
(* the credit check let through.  Every request answered 402, and every    *)
(* request answered 401 that carries an Authorization header, has been     *)
(* counted in the rate-limit window of its key; a request without the      *)
(* header, such as a failed login, is counted nowhere.                     *)
(***************************************************************************)
C25_GateOrder ==
    [][HttpStep =>
          /\ RateLimiterAnswersAlone
          /\ resp'.by = "credit_check" =>
                resp'.status = 402 /\ resp'.through = {"rate_limit", "credit_check"}
          /\ resp'.by = "brute_force" =>
                resp'.through = {"rate_limit", "credit_check", "brute_force"}
          /\ resp'.by = "app" =>
                {"rate_limit", "credit_check", "brute_force"} \subseteq resp'.through
          /\ resp'.status = 402 \/ (resp'.status = 401 /\ resp'.hdr # NoHeader) =>
                resp'.counted /\ CountedIn(MiddlewareKey(resp'.hdr))
          /\ resp'.hdr = NoHeader => ~resp'.counted /\ redis' = redis]_vars

\* the credit check answered 402 to a request the rate limiter had counted
\* as the last one of its window
C25_Witness ==
    /\ resp.n > 0
    /\ resp.status = 402
    /\ resp.by = "credit_check"
    /\ resp.counted
    /\ MiddlewareKey(resp.hdr) \in DOMAIN redis
    /\ redis[MiddlewareKey(resp.hdr)].count = RateLimit

\* the step is one account request answered; resp' holds it and its response
AccountStep == resp'.n = resp.n + 1

(***************************************************************************)
(* C24: POST /auth/change-password with an incorrect current password is   *)
(* answered 400 'Current password is incorrect' and leaves the stored      *)
(* password hash unchanged.                                                *)
(***************************************************************************)
C24_WrongPasswordAnswered400 ==
    [][\A u \in DOMAIN users :
          (/\ AccountStep
           /\ resp'.endpoint = "change_password"
           /\ get_current_user_api_key(users, resp'.hdr.credentials) = u
           /\ ~verify_password(resp'.body.current_password, users[u].password_hash)) =>
              /\ resp'.status = 400
              /\ resp'.detail = "Current password is incorrect"
              /\ users'[u].password_hash = users[u].password_hash]_vars

\* the keys that authenticate as user u
KeysOf(u) == {key \in AccountKeys : get_current_user_api_key(users, key) = u}

\* the step is a successful POST /api-keys or DELETE /api-keys/1 of user u
Rotation(u) ==
    /\ AccountStep
    /\ resp'.endpoint \in {"create_api_key", "delete_api_key"}
    /\ resp'.status = 200
    /\ get_current_user_api_key(users, resp'.hdr.credentials) = u

RECURSIVE PaidCredits(_, _)
PaidCredits(ids, u) ==
    IF ids = {} THEN 0
    ELSE LET id == CHOOSE x \in ids : TRUE
             pi == payment_intents[id]
         IN  (IF pi.status = "succeeded" /\ pi.metadata.user_id = u
              THEN pi.metadata.credit_amount * Credit ELSE 0)
             + PaidCredits(ids \ {id}, u)

(***************************************************************************)
(* C26: each succeeded payment intent increases its user's credits at most *)
(* once, however often and in whatever order /billing/confirm-payment and  *)
(* the payment_intent.succeeded webhook are processed for it: the ledger   *)
(* holds at most one row per intent, and a user's credits never exceed the *)
(* credits of a new account plus those of the user's succeeded intents.    *)
(***************************************************************************)
C26_PaymentCreditedOnce ==
    /\ \A id \in DOMAIN payment_intents :
          Cardinality({k \in DOMAIN billing_history :
                          billing_history[k].stripe_payment_intent_id = id}) <= 1
    /\ \A u \in DOMAIN users :
          users[u].credits <= Credit \div 10 + PaidCredits(DOMAIN payment_intents, u)

(***************************************************************************)
(* C28: two successful chat requests with the same messages whose model    *)
(* names resolve to the same canonical model and provider are charged the  *)
(* same cost.                                                              *)
(***************************************************************************)
C28_SameModelSameCost ==
    \A i, j \in DOMAIN usage_logs :
        (/\ usage_logs[i].success /\ usage_logs[j].success
         /\ usage_logs[i].tokens_used = usage_logs[j].tokens_used
         /\ resolve_alias(registry, usage_logs[i].model)
                = resolve_alias(registry, usage_logs[j].model)
         /\ usage_logs[i].provider = usage_logs[j].provider) =>
            usage_logs[i].cost = usage_logs[j].cost

(***************************************************************************)
(* C29: after construction and after any register_model calls, every name  *)
(* m in get_models_for_provider(p) has get_provider(m) = p.                *)
(***************************************************************************)
C29_ProviderModelsAgree ==
    \A p \in DOMAIN registry.provider_models :
        \A m \in get_models_for_provider(registry, p) :
            get_provider(registry, m) = p

(***************************************************************************)
(* C30: the admin endpoints return data or act only for a request bearing  *)
(* a valid, unexpired JWT of an active user whose is_admin flag is set;     *)
(* every other request is answered 401 or 403 and changes no stored state. *)
(***************************************************************************)
\* the header carries a valid, unexpired JWT of an active administrator
Authorised(hdr) ==
    /\ hdr.credentials \in DOMAIN IssuedTokens
    /\ IssuedTokens[hdr.credentials].signed
    /\ IssuedTokens[hdr.credentials].exp >= now
    /\ \E u \in DOMAIN users :
          /\ users[u].email = IssuedTokens[hdr.credentials].sub
          /\ users[u].is_active
          /\ users[u].is_admin

DatabaseUnchanged == UNCHANGED <<users, billing_history, usage_logs, payment_intents>>

C30_OthersAnswered401Or403 ==
    [][HttpStep =>
          /\ resp'.status = 200 => Authorised(resp'.hdr)
          /\ ~Authorised(resp'.hdr) =>
                /\ resp'.status \in {401, 403}
                /\ DatabaseUnchanged]_vars

\* C30 as the code has it: the admin endpoints answer 200 only to such a
\* request; every other request is answered 401 or 403 by the application,
\* or 429 by the rate limiter or the brute-force lockout in front of it, and
\* changes no row of the database.
C30_OnlyAdministratorsPass ==
    [][HttpStep =>
          /\ resp'.status = 200 => Authorised(resp'.hdr)
          /\ ~Authorised(resp'.hdr) =>
                /\ \/ resp'.status \in {401, 403} /\ resp'.by = "app"
                   \/ resp'.status = 429 /\ resp'.by \in {"rate_limit", "brute_force"}
                /\ DatabaseUnchanged]_vars

\* an administrator's refund has been recorded, and the ordinary user's
\* request for a refund has just been refused by require_admin
C30_Witness ==
    /\ resp.n > 0
    /\ resp.path = "/billing/refund"
    /\ resp.hdr.credentials = "jwt.user"
    /\ resp.status = 403 /\ resp.by = "app"
    /\ \E k \in DOMAIN billing_history : billing_history[k].transaction_type = "refund"

====
